---- MODULE Spec2Model ----
(***************************************************************************)
(* DealScout: the deal intake pipeline (scheduler.process_new_emails), the *)
(* Deal / Flip lifecycle handlers (routers/deals.py, routers/flips.py),    *)
(* the periodic jobs and the APScheduler job store that fires them.        *)
(* Money is counted in cents.                                              *)
(***************************************************************************)
EXTENDS Integers, Sequences, FiniteSets, TLC

VARIABLES
    inbox,        \* the alert e-mails get_swoopa_emails returns (raw listings)
    orderFeed,    \* the orders get_recent_orders returns for the window
    tokens,       \* DeviceToken table: registered device tokens
    deals,        \* Deal table: committed rows
    flips,        \* Flip table: committed rows
    nextDealId,   \* next primary key of the deals table
    nextFlipId,   \* next primary key of the flips table
    instances,    \* executor's count of running instances per job id
    fired,        \* number of timer firings handled so far, per job id
    intakeRuns,   \* in-flight process_new_emails coroutines (session state)
    reviewRuns,   \* in-flight check_needs_review coroutines
    syncRuns,     \* in-flight sync_ebay_orders coroutines
    sent,         \* push messages handed to FCM
    jobLog,       \* per job id: what the last finished run reported
    response,     \* the last HTTP response of the routers
    requests      \* HTTP requests whose handler is between two awaits

vars == <<inbox, orderFeed, tokens, deals, flips, nextDealId, nextFlipId, instances, fired,
          intakeRuns, reviewRuns, syncRuns, sent, jobLog, response, requests>>

----------------------------------------------------------------------------
(* Bounds of the model *)

\* HTTP requests handled step by step
MaxRequests == 2
\* longest batch of raw listings one fetch returns
MaxBatch == 2
\* timer firings handled per job id
MaxFirings == 2
\* Flip rows ever inserted
MaxFlips == 2

\* Optional[T]: None, or Some(v) with value Val(o)
None == <<>>
Some(v) == <<v>>
Val(o) == o[1]

Jobs == {"process_emails", "check_needs_review", "sync_ebay_orders"}

Tokens == {"t1", "t2"}

----------------------------------------------------------------------------
(* Profit arithmetic: services/profit_calculator.py *)

\* a quantize that drops the fraction of a cent
Quantize_Floor(n, d) == n \div d

\* Decimal.quantize(Decimal("0.01")) of n/d cents, ROUND_HALF_EVEN, d > 0
Quantize(n, d) ==
    LET q == n \div d
        r == n % d
    IN  IF 2 * r < d THEN q
        ELSE IF 2 * r > d THEN q + 1
        ELSE IF q % 2 = 0 THEN q ELSE q + 1

\* settings.ebay_fee_percentage, in percent
FeePct == 13

\* settings.profit_threshold, in cents
ProfitThreshold == 5000

\* calculate_estimated_profit with all four arguments given; amounts in
\* cents, fee_percentage an optional number of percent
calculate_estimated_profit_with(asking_price, market_value, fee_percentage, shipping_estimate) ==
    IF asking_price = None \/ market_value = None THEN None
    ELSE LET fee == IF fee_percentage = None THEN FeePct ELSE Val(fee_percentage)
         IN  Some(Quantize(100 * Val(market_value) - 100 * Val(asking_price)
                           - fee * Val(market_value) - 100 * shipping_estimate, 100))

\* the call with the two defaults: fee from the settings, no shipping
calculate_estimated_profit(asking_price, market_value) ==
    calculate_estimated_profit_with(asking_price, market_value, None, 0)

is_profitable_deal(asking_price, market_value) ==
    LET profit == calculate_estimated_profit(asking_price, market_value)
    IN  IF profit = None THEN FALSE ELSE Val(profit) >= ProfitThreshold

LABOR_ESTIMATES(feasibility) ==
    CASE feasibility = "easy" -> 1500
      [] feasibility = "moderate" -> 3500
      [] feasibility = "difficult" -> 7500
      [] feasibility = "professional" -> 15000

DEFAULT_LABOR == 5000

\* the labor tier a repair type's keywords select, None when none matches
KeywordTier(repair_type) ==
    IF repair_type \in {Some("screen"), Some("battery"), Some("back glass")}
    THEN Some("moderate")
    ELSE IF repair_type \in {Some("port"), Some("charging"), Some("button")}
    THEN Some("difficult")
    ELSE IF repair_type \in {Some("board"), Some("water"), Some("motherboard")}
    THEN Some("professional")
    ELSE IF repair_type \in {Some("cosmetic"), Some("scratch"), Some("dent")}
    THEN Some("easy")
    ELSE None

\* an estimate that reads the repair type's keywords before the feasibility
estimate_labor_cost_TypeFirst(repair_feasibility, repair_type) ==
    IF KeywordTier(repair_type) # None
    THEN LABOR_ESTIMATES(Val(KeywordTier(repair_type)))
    ELSE IF repair_feasibility \in {Some("easy"), Some("moderate"), Some("difficult"),
                                   Some("professional")}
    THEN LABOR_ESTIMATES(Val(repair_feasibility))
    ELSE DEFAULT_LABOR

estimate_labor_cost(repair_feasibility, repair_type) ==
    IF repair_feasibility \in {Some("easy"), Some("moderate"), Some("difficult"),
                              Some("professional")}
    THEN LABOR_ESTIMATES(Val(repair_feasibility))
    ELSE IF KeywordTier(repair_type) # None
    THEN LABOR_ESTIMATES(Val(KeywordTier(repair_type)))
    ELSE DEFAULT_LABOR

calculate_repair_estimate(part_cost, repair_feasibility, repair_type) ==
    LET labor == estimate_labor_cost(repair_feasibility, repair_type)
        part  == IF part_cost = None THEN 0 ELSE Val(part_cost)
    IN  [part_cost |-> part, labor_estimate |-> labor, total_estimate |-> part + labor]

calculate_true_profit(estimated_profit, repair_total) ==
    IF estimated_profit = None THEN None
    ELSE IF repair_total = None THEN estimated_profit
    ELSE Some(Val(estimated_profit) - Val(repair_total))

Max(a, b) == IF a >= b THEN a ELSE b
Min(a, b) == IF a <= b THEN a ELSE b

\* truthiness of an Optional[bool] and of an Optional number
TruthyBool(x) == x = Some(TRUE)
TruthyNum(x) == x # None /\ x # Some(0)

\* bands that need more than the threshold percentage
profit_score_Strict(estimated_profit, market_value) ==
    IF estimated_profit # None /\ market_value # None /\ Val(market_value) > 0
    THEN LET p == 100 * Val(estimated_profit)
             m == Val(market_value)
         IN  IF p > 50 * m THEN 40
             ELSE IF p > 35 * m THEN 35
             ELSE IF p > 25 * m THEN 30
             ELSE IF p > 15 * m THEN 22
             ELSE IF p > 10 * m THEN 15
             ELSE IF p > 5 * m THEN 8
             ELSE 0
    ELSE 0

\* profit_pct = float(estimated_profit) / float(market_value) * 100 is
\* computed in binary doubles.  For these amounts (profit, market value, in
\* cents) the exact percentage is the threshold named third and the double
\* comes out just below it (4.999999999999999, 9.999999999999998,
\* 14.999999999999996, 34.99999999999999); for every other pair of amounts
\* used in this module the double compares with the thresholds as the exact
\* ratio does.
FloatFallsShort ==
    {<<113, 2260, 5>>, <<113, 1130, 10>>, <<201, 1340, 15>>, <<581, 1660, 35>>}

\* profit_pct >= k as the doubles decide it
PctAtLeast(profit, market, k) ==
    /\ 100 * profit >= k * market
    /\ <<profit, market, k>> \notin FloatFallsShort

profit_score(estimated_profit, market_value) ==
    IF estimated_profit # None /\ market_value # None /\ Val(market_value) > 0
    THEN LET p == Val(estimated_profit)
             m == Val(market_value)
         IN  IF PctAtLeast(p, m, 50) THEN 40
             ELSE IF PctAtLeast(p, m, 35) THEN 35
             ELSE IF PctAtLeast(p, m, 25) THEN 30
             ELSE IF PctAtLeast(p, m, 15) THEN 22
             ELSE IF PctAtLeast(p, m, 10) THEN 15
             ELSE IF PctAtLeast(p, m, 5) THEN 8
             ELSE 0
    ELSE 0

risk_score(condition, repair_needed, repair_feasibility, has_photos, photo_quality) ==
    LET repair == IF TruthyBool(repair_needed)
                  THEN (IF repair_feasibility = Some("professional") THEN 15
                        ELSE IF repair_feasibility = Some("difficult") THEN 10
                        ELSE IF repair_feasibility = Some("moderate") THEN 5
                        ELSE 3)
                  ELSE 0
        unknown == IF condition = Some("unknown") THEN 5 ELSE 0
        photo == IF ~TruthyBool(has_photos) THEN 8
                 ELSE IF photo_quality = Some("poor") THEN 3 ELSE 0
    IN  Max(0, 20 - repair - unknown - photo)

effort_score(repair_needed, repair_feasibility) ==
    LET repair == IF TruthyBool(repair_needed)
                  THEN (IF repair_feasibility \in {Some("professional"), Some("difficult")} THEN 12
                        ELSE IF repair_feasibility = Some("moderate") THEN 6
                        ELSE 3)
                  ELSE 0
    IN  Max(0, 20 - repair)

\* labels with the thresholds one point higher
level_Strict(score) == IF score > 16 THEN "low" ELSE IF score > 10 THEN "medium" ELSE "high"

level(score) == IF score >= 16 THEN "low" ELSE IF score >= 10 THEN "medium" ELSE "high"

market_score(price_data_quality, num_listings) ==
    LET base == IF price_data_quality = Some("accurate") THEN 20
                ELSE IF price_data_quality = Some("similar_prices") THEN 15
                ELSE IF price_data_quality = Some("no_data") THEN 5
                ELSE 10
    IN  IF TruthyNum(num_listings)
        THEN (IF Val(num_listings) >= 10 THEN Min(20, base + 5)
              ELSE IF Val(num_listings) < 3 THEN Max(0, base - 5)
              ELSE base)
        ELSE base

demand_indicator(num_listings) ==
    IF TruthyNum(num_listings) /\ Val(num_listings) >= 10 THEN "high"
    ELSE IF TruthyNum(num_listings) /\ Val(num_listings) >= 5 THEN "medium"
    ELSE "low"

\* a prediction that does not slow down for a high risk
flip_speed_RiskBlind(demand, risk_level) ==
    IF demand = "high" /\ risk_level = "low" THEN "fast"
    ELSE IF demand = "low" THEN "slow"
    ELSE "medium"

flip_speed(demand, risk_level) ==
    IF demand = "high" /\ risk_level = "low" THEN "fast"
    ELSE IF demand = "low" \/ risk_level = "high" THEN "slow"
    ELSE "medium"

\* a scorer whose sample-count bonus is not capped and whose total is not clamped
calculate_deal_score_NoClamp(estimated_profit, market_value, condition, repair_needed, repair_feasibility, has_photos, photo_quality, price_data_quality, num_listings) ==
    LET risk   == risk_score(condition, repair_needed, repair_feasibility,
                             has_photos, photo_quality)
        effort == effort_score(repair_needed, repair_feasibility)
        bonus  == IF TruthyNum(num_listings) /\ Val(num_listings) >= 10 THEN 5 ELSE 0
        score  == profit_score(estimated_profit, market_value) + risk + effort
                  + market_score(price_data_quality, None) + bonus
        demand == demand_indicator(num_listings)
    IN  [deal_score |-> score,
         risk_level |-> level(risk),
         effort_level |-> level(effort),
         demand_indicator |-> demand,
         flip_speed_prediction |-> flip_speed(demand, level(risk))]

calculate_deal_score(estimated_profit, market_value, condition, repair_needed, repair_feasibility, has_photos, photo_quality, price_data_quality, num_listings) ==
    LET risk   == risk_score(condition, repair_needed, repair_feasibility,
                             has_photos, photo_quality)
        effort == effort_score(repair_needed, repair_feasibility)
        score  == profit_score(estimated_profit, market_value) + risk + effort
                  + market_score(price_data_quality, num_listings)
        demand == demand_indicator(num_listings)
    IN  [deal_score |-> Min(100, Max(0, score)),
         risk_level |-> level(risk),
         effort_level |-> level(effort),
         demand_indicator |-> demand,
         flip_speed_prediction |-> flip_speed(demand, level(risk))]

----------------------------------------------------------------------------
(* Raw listings, classifications and what the external services answer *)

Conditions == {"new", "used", "needs_repair", "unknown"}

\* services/location.py: the local-pickup radius, in miles
LOCAL_RADIUS_MILES == 100

\* What the classification adapter extracts from a listing's text when it
\* succeeds (DealClassification).  brand / model / subcategory are kept as the
\* search term the pipeline builds from them ("" when all are missing).
Classifications ==
    [condition : Conditions,
     repair_needed : {Some(TRUE), Some(FALSE)},
     has_product_photos : {Some(TRUE), Some(FALSE), None},
     search_term : {"", "item"},
     repair_part_needed : {None, Some("screen")},
     repair_feasibility : {Some("moderate")},
     photo_quality : {Some("good")}]

\* True when the classification leads to the standard pricing path, the only
\* path that reads the listing's source and distance.
OnStandardPath(c) ==
    /\ c.has_product_photos # Some(FALSE)
    /\ c.condition \in {"new", "used"}
    /\ c.repair_needed # Some(TRUE)

\* A raw listing of the alert feed.  title stands for the listing text: it is
\* the classification the adapter returns for it when the adapter succeeds.
RawListing(url, title, price, source, distance) ==
    [listing_url |-> url, title |-> title, asking_price |-> price,
     source |-> source, distance_miles |-> distance]

\* Every listing content, for a feed of one listing.  Source and distance
\* vary where the pipeline reads them, on the standard path.
RichListings ==
    {RawListing("u1", c, p, s, d) :
        c \in {x \in Classifications : OnStandardPath(x)},
        p \in {None, Some(10000)},
        s \in {"ebay", "facebook"}, d \in {None, Some(10), Some(500)}}
    \cup
    {RawListing("u1", c, p, "facebook", None) :
        c \in {x \in Classifications : ~OnStandardPath(x)},
        p \in {None, Some(10000)}}

\* The listings of feeds of several listings: one that is priced, scored and
\* notified, one that is auto-dismissed, one that is routed to review.
CatalogText(condition, repair, photos) ==
    [condition |-> condition, repair_needed |-> Some(repair),
     has_product_photos |-> photos, search_term |-> "item",
     repair_part_needed |-> IF repair THEN Some("screen") ELSE None,
     repair_feasibility |-> Some("moderate"), photo_quality |-> Some("good")]

Catalog ==
    {RawListing("u1", CatalogText("used", FALSE, Some(TRUE)), Some(10000), "facebook", None),
     RawListing("u2", CatalogText("used", FALSE, Some(FALSE)), Some(10000), "facebook", None),
     RawListing("u3", CatalogText("unknown", FALSE, None), None, "facebook", None)}

\* get_market_value(search_term, condition): None (no credentials, an HTTP
\* error, no items) or the pricing dict; its answers here, by name
MarketAnswers == {"none", "high", "low"}

get_market_value(answer) ==
    CASE answer = "none" -> None
      [] answer = "high" -> Some([avg_price |-> 20000, num_sales |-> 12])
      [] answer = "low"  -> Some([avg_price |-> 11000, num_sales |-> 2])

\* a call the pipeline wraps in try/except returns data, returns None or raises
TriedAnswers == {"raised", "none", "data"}

get_parts_market_value(answer) ==
    IF answer = "data" THEN Some([avg_price |-> 30000, num_sales |-> 4]) ELSE None

get_part_cost(answer) ==
    IF answer = "data" THEN Some(3000) ELSE None

analyze_price_trends(answer) ==
    IF answer = "data" THEN Some("up") ELSE None

----------------------------------------------------------------------------
(* The intake pipeline: scheduler.process_new_emails, one listing *)

\* Deal(...) of a raw listing, flushed with primary key id
NewDeal(raw, id) ==
    [id |-> id, listing_url |-> raw.listing_url, asking_price |-> raw.asking_price,
     source |-> raw.source, distance_miles |-> raw.distance_miles,
     status |-> "new",
     condition |-> None, condition_confidence |-> None,
     repair_needed |-> None, repair_feasibility |-> None,
     repair_part_needed |-> None, search_term |-> "",
     has_product_photos |-> None, photo_quality |-> None,
     market_value |-> None, ebay_sold_data |-> None, price_status |-> None,
     price_trend |-> None, estimated_profit |-> None, true_profit |-> None,
     repair_part_cost |-> None, repair_labor_estimate |-> None,
     repair_total_estimate |-> None,
     deal_score |-> None, risk_level |-> None, effort_level |-> None,
     demand_indicator |-> None, flip_speed_prediction |-> None,
     local_pickup_available |-> None, notified_at |-> None]

\* the classification copied onto the deal
ApplyClassification(deal, c) ==
    [deal EXCEPT !.condition = Some(c.condition),
                 !.condition_confidence = Some("explicit"),
                 !.repair_needed = c.repair_needed,
                 !.repair_feasibility = c.repair_feasibility,
                 !.repair_part_needed = c.repair_part_needed,
                 !.search_term = c.search_term,
                 !.has_product_photos = c.has_product_photos,
                 !.photo_quality = c.photo_quality]

\* AUTO-DISMISS NO-PHOTO DEALS: classification.has_product_photos is False
\* a pipeline without the photo check
AutoDismiss_Never(c) == FALSE

AutoDismiss(c) == c.has_product_photos = Some(FALSE)

\* a routing rule without the unknown-condition branch
NeedsReview_RepairOnly(c) ==
    \/ c.condition = "needs_repair"
    \/ TruthyBool(c.repair_needed)

\* NEEDS_REPAIR ALWAYS goes to review; so does an unknown condition
NeedsReview(c) ==
    \/ c.condition = "needs_repair"
    \/ TruthyBool(c.repair_needed)
    \/ c.condition = "unknown"

\* the five score fields written from calculate_deal_score's result
WithScore(deal, num_listings) ==
    LET sd == calculate_deal_score(deal.estimated_profit, deal.market_value,
                  deal.condition, deal.repair_needed, deal.repair_feasibility,
                  deal.has_product_photos, deal.photo_quality, deal.price_status,
                  num_listings)
    IN  [deal EXCEPT !.deal_score = Some(sd.deal_score),
                     !.risk_level = Some(sd.risk_level),
                     !.effort_level = Some(sd.effort_level),
                     !.demand_indicator = Some(sd.demand_indicator),
                     !.flip_speed_prediction = Some(sd.flip_speed_prediction)]

\* pricing succeeded on the standard path: value, profit, trend, score
Priced(deal, pricing, trend) ==
    LET mv == Some(Val(pricing).avg_price)
        d1 == [deal EXCEPT !.market_value = mv,
                           !.ebay_sold_data = pricing,
                           !.price_status = Some("accurate"),
                           !.estimated_profit =
                               calculate_estimated_profit(deal.asking_price, mv),
                           !.price_trend = analyze_price_trends(trend)]
    IN  WithScore(d1, Some(Val(pricing).num_sales))

\* a pipeline that stamps every priced deal
Notified_Always(deal) == [deal EXCEPT !.notified_at = Some("utcnow")]

\* the profitable deal is stamped before the sends
Notified(deal) ==
    IF is_profitable_deal(deal.asking_price, deal.market_value)
    THEN [deal EXCEPT !.notified_at = Some("utcnow")]
    ELSE deal

\* a routing that stamps the deal it sends to review
ToReview_Stamped(deal) ==
    [deal EXCEPT !.status = "needs_condition", !.notified_at = Some("utcnow")]

\* NEEDS_REPAIR ALWAYS goes to review (never auto-notified): only the
\* status is written
ToReview(deal) == [deal EXCEPT !.status = "needs_condition"]

\* a pipeline that scores the deal it could not price
Unresolved_Scored(deal) == WithScore(deal, None)

\* get_market_value returned None, or there was no search term: the
\* pricing block is skipped
Unresolved(deal) == deal

\* a pipeline that makes the local-pickup query whatever the source
ChecksPickup_AnySource(deal) ==
    deal.distance_miles = None \/ Val(deal.distance_miles) <= LOCAL_RADIUS_MILES

\* the local-pickup query is made for eBay listings within range
ChecksPickup(deal) ==
    /\ deal.source = "ebay"
    /\ (deal.distance_miles = None \/ Val(deal.distance_miles) <= LOCAL_RADIUS_MILES)

WithPickup(deal, pickup) ==
    [deal EXCEPT !.local_pickup_available =
        IF pickup = "raised" THEN None
        ELSE IF pickup = "data" THEN Some(TRUE) ELSE Some(FALSE)]

\* the repair-cost path: parts value, part cost and estimate, profit, score
\* a repair-cost path that runs for every deal routed to review
RunsRepairPath_AllReview(deal) ==
    \/ deal.condition = Some("needs_repair")
    \/ TruthyBool(deal.repair_needed)
    \/ deal.condition = Some("unknown")

RunsRepairPath(deal) ==
    deal.condition = Some("needs_repair") \/ TruthyBool(deal.repair_needed)

RepairPath(deal, parts, part) ==
    LET pv == IF deal.search_term # "" THEN get_parts_market_value(parts) ELSE None
        d1 == IF pv # None
              THEN [deal EXCEPT !.market_value = Some(Val(pv).avg_price),
                                !.ebay_sold_data = pv,
                                !.price_status = Some("similar_prices")]
              ELSE deal
        pc == IF deal.repair_part_needed # None THEN get_part_cost(part) ELSE None
        est == calculate_repair_estimate(pc, d1.repair_feasibility, d1.repair_part_needed)
        d2 == IF pc # None
              THEN [d1 EXCEPT !.repair_part_cost = pc,
                              !.repair_labor_estimate = Some(est.labor_estimate),
                              !.repair_total_estimate = Some(est.total_estimate),
                              !.true_profit =
                                  IF TruthyNum(d1.estimated_profit)
                                  THEN calculate_true_profit(d1.estimated_profit,
                                                             Some(est.total_estimate))
                                  ELSE d1.true_profit]
              ELSE d1
    IN  IF TruthyNum(d2.market_value)
        THEN WithScore([d2 EXCEPT !.estimated_profit =
                            calculate_estimated_profit(d2.asking_price, d2.market_value)],
                       IF d2.ebay_sold_data # None
                       THEN Some(Val(d2.ebay_sold_data).num_sales) ELSE None)
        ELSE d2

----------------------------------------------------------------------------
(* The scheduler: start_scheduler's three interval jobs *)

\* add_job is called without max_instances: the executor runs at most this
\* many instances of one job id at a time
MaxInstances == 1

\* an executor that allows two instances of a job id
CanSubmit_Two(j) == instances[j] < 2

\* the executor accepts a firing of job j
CanSubmit(j) == instances[j] < MaxInstances

\* job functions that let the exception through
JobEvent_Reraise(outcome) == IF outcome = "failed" THEN "error" ELSE "executed"

\* what the executor sees of a run of a job function: each body is wrapped in
\* try / except Exception, which prints the error and returns
JobEvent(outcome) == "executed"

NoLog == [outcome |-> "none", event |-> "none", batch_len |-> 0, iterations |-> 0,
          decided |-> {}]

Remove(seq, k) == [n \in 1..(Len(seq) - 1) |-> IF n < k THEN seq[n] ELSE seq[n + 1]]

\* the timer of process_emails fires: the run is submitted, or skipped when
\* the job already has its maximum of running instances
FireIntake ==
    /\ fired["process_emails"] < MaxFirings
    /\ fired' = [fired EXCEPT !["process_emails"] = @ + 1]
    /\ IF CanSubmit("process_emails")
       THEN /\ instances' = [instances EXCEPT !["process_emails"] = @ + 1]
            /\ intakeRuns' = Append(intakeRuns,
                   [pc |-> "start", batch |-> <<>>, i |-> 1, pending |-> {},
                    tokens |-> {}])
       ELSE UNCHANGED <<instances, intakeRuns>>
    /\ UNCHANGED <<requests, inbox, orderFeed, tokens, deals, flips, nextDealId, nextFlipId,
                   reviewRuns, syncRuns, sent, jobLog, response>>

\* run r of process_new_emails ends: the session is committed or closed
\* without a commit, the outcome is printed, the executor releases the job
EndIntake(r, outcome, iterations) ==
    LET run == intakeRuns[r]
    IN  /\ deals' = IF outcome = "done" THEN deals \cup run.pending ELSE deals
        /\ intakeRuns' = Remove(intakeRuns, r)
        /\ instances' = [instances EXCEPT !["process_emails"] = @ - 1]
        /\ jobLog' = [jobLog EXCEPT !["process_emails"] =
               [outcome |-> outcome, event |-> JobEvent(outcome),
                batch_len |-> Len(run.batch), iterations |-> iterations,
                decided |-> run.pending]]

\* the e-mails are fetched and the device tokens read, or the fetch raises
IntakeFetch(r) ==
    /\ r \in DOMAIN intakeRuns
    /\ intakeRuns[r].pc = "start"
    /\ \E fetched \in BOOLEAN :
          IF fetched
          THEN /\ intakeRuns' = [intakeRuns EXCEPT ![r] =
                      [pc |-> "loop", batch |-> inbox, i |-> 1, pending |-> {},
                       tokens |-> tokens]]
               /\ UNCHANGED <<deals, instances, jobLog>>
          ELSE EndIntake(r, "failed", 0)
    /\ UNCHANGED <<requests, inbox, orderFeed, tokens, flips, nextDealId, nextFlipId, fired,
                   reviewRuns, syncRuns, sent, response>>

\* a lookup that reads the committed rows only
ExistingRows_CommittedOnly(pending, url) == {d \in deals : d.listing_url = url}

\* a lookup that reads the rows of the running session only
ExistingRows_SessionOnly(pending, url) == {d \in pending : d.listing_url = url}

\* the rows the session's SELECT by listing_url sees: the committed deals
\* and the deals this session has flushed
ExistingRows(pending, url) == {d \in deals \cup pending : d.listing_url = url}

\* a sender whose loop ends at the first token whose send fails
DealMessages_StopAtFailure(deal, toks, delivered) ==
    IF deal.notified_at # None
    THEN {[kind |-> "deal", deal_id |-> deal.id, count |-> 0, token |-> t,
           delivered |-> (t \in delivered)] :
             t \in IF toks \subseteq delivered THEN toks
                   ELSE {CHOOSE u \in toks : u \notin delivered}}
    ELSE {}

\* the messages of send_deal_notification, one per token of the run
DealMessages(deal, toks, delivered) ==
    IF deal.notified_at # None
    THEN {[kind |-> "deal", deal_id |-> deal.id, count |-> 0, token |-> t,
           delivered |-> (t \in delivered)] : t \in toks}
    ELSE {}

\* the listing's deal is kept in the session and the loop goes on
KeepListing(r, deal, msgs) ==
    /\ intakeRuns' = [intakeRuns EXCEPT ![r].i = @ + 1, ![r].pending = @ \cup {deal}]
    /\ nextDealId' = nextDealId + 1
    /\ sent' = sent \cup msgs
    /\ UNCHANGED <<deals, instances, jobLog>>

\* a pipeline that drops the listing it could not classify
Unclassified_Dismissed(deal) == [deal EXCEPT !.status = "dismissed"]

\* classifier.classify returned None: the deal is left as it was created
Unclassified(deal) == deal

\* one iteration of the loop over raw_deals
IntakeListing(r) ==
    /\ r \in DOMAIN intakeRuns
    /\ intakeRuns[r].pc = "loop"
    /\ intakeRuns[r].i <= Len(intakeRuns[r].batch)
    /\ LET run  == intakeRuns[r]
           raw  == run.batch[run.i]
           rows == ExistingRows(run.pending, raw.listing_url)
           d0   == NewDeal(raw, nextDealId)
       IN  IF Cardinality(rows) > 1
           THEN \* scalar_one_or_none raises MultipleResultsFound
                /\ EndIntake(r, "failed", run.i - 1)
                /\ UNCHANGED <<nextDealId, sent>>
           ELSE IF rows # {}
           THEN \* already processed: continue
                /\ intakeRuns' = [intakeRuns EXCEPT ![r].i = @ + 1]
                /\ UNCHANGED <<deals, instances, jobLog, nextDealId, sent>>
           ELSE \E flushed \in BOOLEAN, classified \in BOOLEAN :
                IF ~flushed
                THEN \* db.flush() raises: the exception leaves the loop
                     /\ ~classified
                     /\ EndIntake(r, "failed", run.i - 1)
                     /\ UNCHANGED <<nextDealId, sent>>
                ELSE IF ~classified
                THEN \* classifier.classify returned None
                     KeepListing(r, Unclassified(d0), {})
                ELSE LET c  == raw.title
                         d1 == ApplyClassification(d0, c)
                     IN  IF AutoDismiss(c)
                         THEN KeepListing(r, [d1 EXCEPT !.status = "dismissed"], {})
                         ELSE IF NeedsReview(c)
                         THEN \E parts \in TriedAnswers, part \in TriedAnswers :
                                LET d2 == ToReview(d1)
                                IN  /\ (d2.search_term = "" => parts = "none")
                                    /\ (d2.repair_part_needed = None => part = "none")
                                    /\ (~RunsRepairPath(d2) => parts = "none" /\ part = "none")
                                    /\ KeepListing(r,
                                          IF RunsRepairPath(d2)
                                          THEN RepairPath(d2, parts, part) ELSE d2, {})
                         ELSE \E market \in MarketAnswers, trend \in TriedAnswers,
                                 pickup \in TriedAnswers, delivered \in SUBSET run.tokens :
                                LET pricing == IF c.search_term # ""
                                               THEN get_market_value(market) ELSE None
                                    d2 == IF pricing # None
                                          THEN Notified(Priced(d1, pricing, trend))
                                          ELSE Unresolved(d1)
                                    d3 == IF c.search_term # "" /\ ChecksPickup(d2)
                                          THEN WithPickup(d2, pickup) ELSE d2
                                IN  /\ (c.search_term = "" => market = "none")
                                    /\ (pricing = None => trend = "none")
                                    /\ (d2.notified_at = None => delivered = {})
                                    /\ (~(c.search_term # "" /\ ChecksPickup(d2))
                                          => pickup = "none")
                                    /\ KeepListing(r, d3, DealMessages(d3, run.tokens, delivered))
    /\ UNCHANGED <<requests, inbox, orderFeed, tokens, flips, nextFlipId, fired, reviewRuns,
                   syncRuns, response>>

\* the loop is over: db.commit() and the summary line
IntakeCommit(r) ==
    /\ r \in DOMAIN intakeRuns
    /\ intakeRuns[r].pc = "loop"
    /\ intakeRuns[r].i > Len(intakeRuns[r].batch)
    /\ EndIntake(r, "done", Len(intakeRuns[r].batch))
    /\ UNCHANGED <<requests, inbox, orderFeed, tokens, flips, nextDealId, nextFlipId, fired,
                   reviewRuns, syncRuns, sent, response>>

----------------------------------------------------------------------------
(* check_needs_review and sync_ebay_orders *)

FireReview ==
    /\ fired["check_needs_review"] < MaxFirings
    /\ fired' = [fired EXCEPT !["check_needs_review"] = @ + 1]
    /\ IF CanSubmit("check_needs_review")
       THEN /\ instances' = [instances EXCEPT !["check_needs_review"] = @ + 1]
            /\ reviewRuns' = Append(reviewRuns, [pc |-> "start"])
       ELSE UNCHANGED <<instances, reviewRuns>>
    /\ UNCHANGED <<requests, inbox, orderFeed, tokens, deals, flips, nextDealId, nextFlipId,
                   intakeRuns, syncRuns, sent, jobLog, response>>

\* a sweep that notifies one device only
ReviewMessages_OneToken(count, toks, delivered) ==
    {[kind |-> "needs_review", deal_id |-> 0, count |-> count, token |-> t,
      delivered |-> (t \in delivered)] : t \in {u \in toks : \A v \in toks : u = v \/ u # "t2"}}

\* send_needs_review_notification for every token of the table
ReviewMessages(count, toks, delivered) ==
    {[kind |-> "needs_review", deal_id |-> 0, count |-> count, token |-> t,
      delivered |-> (t \in delivered)] : t \in toks}

\* the sweep: count the deals in needs_condition and notify every token, or a
\* database call raises and the except clause prints the error
check_needs_review(r) ==
    /\ r \in DOMAIN reviewRuns
    /\ \E queried \in BOOLEAN, delivered \in SUBSET tokens :
          LET count == Cardinality({d \in deals : d.status = "needs_condition"})
              outcome == IF queried THEN "done" ELSE "failed"
          IN  /\ (~queried \/ count = 0 => delivered = {})
              /\ sent' = IF queried /\ count > 0
                         THEN sent \cup ReviewMessages(count, tokens, delivered)
                         ELSE sent
              /\ jobLog' = [jobLog EXCEPT !["check_needs_review"] =
                     [NoLog EXCEPT !.outcome = outcome, !.event = JobEvent(outcome)]]
    /\ reviewRuns' = Remove(reviewRuns, r)
    /\ instances' = [instances EXCEPT !["check_needs_review"] = @ - 1]
    /\ UNCHANGED <<requests, inbox, orderFeed, tokens, deals, flips, nextDealId, nextFlipId, fired,
                   intakeRuns, syncRuns, response>>

FireSync ==
    /\ fired["sync_ebay_orders"] < MaxFirings
    /\ fired' = [fired EXCEPT !["sync_ebay_orders"] = @ + 1]
    /\ IF CanSubmit("sync_ebay_orders")
       THEN /\ instances' = [instances EXCEPT !["sync_ebay_orders"] = @ + 1]
            /\ syncRuns' = Append(syncRuns, [pc |-> "start"])
       ELSE UNCHANGED <<instances, syncRuns>>
    /\ UNCHANGED <<requests, inbox, orderFeed, tokens, deals, flips, nextDealId, nextFlipId,
                   intakeRuns, reviewRuns, sent, jobLog, response>>

\* Flip.calculate_profit
calculate_profit(flip) ==
    IF flip.sell_price = None THEN None
    ELSE Some(Val(flip.sell_price) - flip.buy_price - flip.fees_paid - flip.shipping_cost)

\* an order of the feed: its fulfillment status and its line items, each
\* with the listing id and the sale price
LineItem(listing_id, sell_price) == [listing_id |-> listing_id, sell_price |-> sell_price]

OrderFeeds ==
    {<<>>,
     <<[order_status |-> "FULFILLED", items |-> <<LineItem("e1", 9000)>>]>>,
     <<[order_status |-> "FULFILLED",
        items |-> <<LineItem("e1", 9000), LineItem("e1", 8000)>>]>>,
     <<[order_status |-> "NOT_STARTED", items |-> <<LineItem("e1", 9000)>>]>>}

\* the line items of the orders that are fulfilled or in progress, in the
\* order the loops visit them
RECURSIVE CompletedItems(_)
CompletedItems(orders) ==
    IF orders = <<>> THEN <<>>
    ELSE (IF Head(orders).order_status \in {"FULFILLED", "IN_PROGRESS"}
          THEN Head(orders).items ELSE <<>>) \o CompletedItems(Tail(orders))

\* flip_by_listing: the active flips that carry a listing id, by listing id;
\* it is built once, before the loops
flip_by_listing(rows) ==
    {<<Val(f.ebay_listing_id), f.id>> :
        f \in {g \in rows : g.status = "active" /\ g.ebay_listing_id # None}}

\* the session's flip with the sale of the line item written on it
MarkedSold(flip, sell_price) ==
    [flip EXCEPT !.status = "sold",
                 !.sell_price = Some(sell_price),
                 !.fees_paid = Quantize(sell_price * FeePct, 100)]

\* arithmetic on a float sell_price and fees_paid that works on Decimals
FloatMinusDecimalRaises_Never == FALSE

\* flip.calculate_profit() after sell_price and fees_paid were set to floats:
\* float - Decimal (buy_price) raises TypeError
FloatMinusDecimalRaises == TRUE

\* the loops over the orders and their line items: the session's rows, the
\* flips marked sold in visiting order, synced_count, and whether it raised
RECURSIVE SyncLoop(_, _, _)
SyncLoop(items, lookup, acc) ==
    IF items = <<>> \/ acc.raised THEN acc
    ELSE LET item == Head(items)
             hit  == {e \in lookup : e[1] = item.listing_id}
         IN  IF hit = {} THEN SyncLoop(Tail(items), lookup, acc)
             ELSE LET id   == (CHOOSE e \in hit : TRUE)[2]
                      old  == CHOOSE f \in acc.rows : f.id = id
                      sold == MarkedSold(old, item.sell_price)
                  IN  IF FloatMinusDecimalRaises
                      THEN [acc EXCEPT !.marked = Append(@, id), !.raised = TRUE]
                      ELSE SyncLoop(Tail(items), lookup,
                               [acc EXCEPT
                                  !.rows = (@ \ {old})
                                           \cup {[sold EXCEPT !.profit = calculate_profit(sold)]},
                                  !.marked = Append(@, id),
                                  !.synced = @ + 1])

\* sync_sold_items: no token, the order fetch raises, no orders, or the loops
sync_sold_items(has_token, fetched, orders) ==
    LET idle == [rows |-> flips, marked |-> <<>>, synced |-> 0, raised |-> FALSE]
    IN  IF ~has_token THEN idle
        ELSE IF ~fetched THEN [idle EXCEPT !.raised = TRUE]
        ELSE IF orders = <<>> THEN idle
        ELSE SyncLoop(CompletedItems(orders), flip_by_listing(flips), idle)

\* what a run of sync_ebay_orders leaves in the log: the flips it marked
\* sold and those the run before it marked
SyncLog(outcome, result) ==
    [outcome |-> outcome, event |-> JobEvent(outcome),
     marked |-> result.marked, synced |-> result.synced,
     prev_marked |-> IF jobLog["sync_ebay_orders"].outcome = "none"
                     THEN <<>> ELSE jobLog["sync_ebay_orders"].marked]

sync_ebay_orders(r) ==
    /\ r \in DOMAIN syncRuns
    /\ syncRuns[r].pc = "start"
    /\ \E has_token \in BOOLEAN, fetched \in BOOLEAN :
          LET result == sync_sold_items(has_token, fetched, orderFeed)
              outcome == IF result.raised THEN "failed" ELSE "done"
          IN  /\ (~has_token => fetched)
              /\ flips' = IF ~result.raised /\ result.synced > 0
                          THEN result.rows ELSE flips
              /\ jobLog' = [jobLog EXCEPT !["sync_ebay_orders"] = SyncLog(outcome, result)]
    /\ syncRuns' = Remove(syncRuns, r)
    /\ instances' = [instances EXCEPT !["sync_ebay_orders"] = @ - 1]
    /\ UNCHANGED <<requests, inbox, orderFeed, tokens, deals, nextDealId, nextFlipId, fired,
                   intakeRuns, reviewRuns, sent, response>>

----------------------------------------------------------------------------
(* The routers: routers/deals.py, routers/flips.py, routers/stats.py *)

Respond(op, id, code) == [op |-> op, code |-> code]

\* the ids a request may name: every stored row, and one that is not stored
DealIds == {d.id : d \in deals} \cup {0}
FlipIds == {f.id : f \in flips} \cup {0}

DealById(id) == CHOOSE d \in deals : d.id = id
FlipById(id) == CHOOSE f \in flips : f.id = id

\* a purchase handler without the status check
AlreadyPurchased_Never(deal) == FALSE

\* purchase_deal rejects a deal that is already purchased
AlreadyPurchased(deal) == deal.status = "purchased"

\* Flip(...) of purchase_deal and create_flip, refreshed after the commit
NewFlip(id, deal_id, buy_price) ==
    [id |-> id, deal_id |-> deal_id, status |-> "active", buy_price |-> buy_price,
     sell_price |-> None, fees_paid |-> 0, shipping_cost |-> 0, profit |-> None,
     ebay_listing_id |-> None]

\* POST /deals/{deal_id}/purchase
purchase_deal(id, buy_price) ==
    /\ IF ~\E d \in deals : d.id = id
       THEN /\ response' = Respond("purchase_deal", id, 404)
            /\ UNCHANGED <<deals, flips, nextFlipId>>
       ELSE IF AlreadyPurchased(DealById(id))
       THEN /\ response' = Respond("purchase_deal", id, 400)
            /\ UNCHANGED <<deals, flips, nextFlipId>>
       ELSE /\ nextFlipId <= MaxFlips
            /\ flips' = flips \cup {NewFlip(nextFlipId, Some(id), buy_price)}
            /\ nextFlipId' = nextFlipId + 1
            /\ deals' = (deals \ {DealById(id)})
                         \cup {[DealById(id) EXCEPT !.status = "purchased"]}
            /\ response' = Respond("purchase_deal", id, 200)
    /\ UNCHANGED <<requests, inbox, orderFeed, tokens, nextDealId, instances, fired, intakeRuns,
                   reviewRuns, syncRuns, sent, jobLog>>

\* POST /deals/{deal_id}/dismiss
dismiss_deal(id) ==
    /\ IF ~\E d \in deals : d.id = id
       THEN /\ response' = Respond("dismiss_deal", id, 404)
            /\ UNCHANGED deals
       ELSE /\ deals' = (deals \ {DealById(id)})
                         \cup {[DealById(id) EXCEPT !.status = "dismissed"]}
            /\ response' = Respond("dismiss_deal", id, 200)
    /\ UNCHANGED <<requests, inbox, orderFeed, tokens, flips, nextDealId, nextFlipId, instances, fired,
                   intakeRuns, reviewRuns, syncRuns, sent, jobLog>>

\* a handler that writes the condition and leaves the status
ConditionUpdated_KeepStatus(deal, condition, market) ==
    [deal EXCEPT !.condition = Some(condition),
                 !.condition_confidence = Some("user_confirmed")]

\* the deal with the user's condition and, when pricing answers, its value
ConditionUpdated(deal, condition, market) ==
    LET d1 == [deal EXCEPT !.condition = Some(condition),
                           !.condition_confidence = Some("user_confirmed"),
                           !.status = "new"]
        pricing == IF d1.search_term # "" THEN get_market_value(market) ELSE None
    IN  IF pricing # None
        THEN [d1 EXCEPT !.market_value = Some(Val(pricing).avg_price),
                        !.ebay_sold_data = pricing,
                        !.estimated_profit =
                            calculate_estimated_profit(d1.asking_price,
                                                       Some(Val(pricing).avg_price))]
        ELSE d1

\* POST /deals/{deal_id}/condition
update_condition(id, condition, market) ==
    /\ IF ~\E d \in deals : d.id = id
       THEN /\ response' = Respond("update_condition", id, 404)
            /\ UNCHANGED deals
       ELSE IF condition \notin {"new", "used"}
       THEN /\ response' = Respond("update_condition", id, 400)
            /\ UNCHANGED deals
       ELSE /\ deals' = (deals \ {DealById(id)})
                         \cup {ConditionUpdated(DealById(id), condition, market)}
            /\ response' = Respond("update_condition", id, 200)
    /\ UNCHANGED <<requests, inbox, orderFeed, tokens, flips, nextDealId, nextFlipId, instances, fired,
                   intakeRuns, reviewRuns, syncRuns, sent, jobLog>>

\* POST /flips
create_flip(buy_price) ==
    /\ nextFlipId <= MaxFlips
    /\ flips' = flips \cup {NewFlip(nextFlipId, None, buy_price)}
    /\ nextFlipId' = nextFlipId + 1
    /\ response' = Respond("create_flip", nextFlipId, 200)
    /\ UNCHANGED <<requests, inbox, orderFeed, tokens, deals, nextDealId, instances, fired, intakeRuns,
                   reviewRuns, syncRuns, sent, jobLog>>

\* a sale handler without the status check
AlreadySold_Never(flip) == FALSE

\* sell_flip rejects a flip that is already sold
AlreadySold(flip) == flip.status = "sold"

Sold(flip, sell_price, fees_paid, shipping_cost) ==
    LET f1 == [flip EXCEPT !.sell_price = Some(sell_price),
                           !.fees_paid = fees_paid,
                           !.shipping_cost = shipping_cost,
                           !.status = "sold"]
    IN  [f1 EXCEPT !.profit = calculate_profit(f1)]

\* POST /flips/{flip_id}/sell
sell_flip(id, sell_price, fees_paid, shipping_cost) ==
    /\ IF ~\E f \in flips : f.id = id
       THEN /\ response' = Respond("sell_flip", id, 404)
            /\ UNCHANGED flips
       ELSE IF AlreadySold(FlipById(id))
       THEN /\ response' = Respond("sell_flip", id, 400)
            /\ UNCHANGED flips
       ELSE /\ flips' = (flips \ {FlipById(id)})
                         \cup {Sold(FlipById(id), sell_price, fees_paid, shipping_cost)}
            /\ response' = Respond("sell_flip", id, 200)
    /\ UNCHANGED <<requests, inbox, orderFeed, tokens, deals, nextDealId, nextFlipId, instances, fired,
                   intakeRuns, reviewRuns, syncRuns, sent, jobLog>>

\* the fields a FlipUpdate body may carry, of the fields kept here: the
\* purchase facts
FlipUpdateFields == {"buy_price"}

\* setattr(flip, field, value) for every field the body provides
Patched(flip, buy_price) ==
    IF buy_price # None /\ "buy_price" \in FlipUpdateFields
    THEN [flip EXCEPT !.buy_price = Val(buy_price)]
    ELSE flip

\* PUT /flips/{flip_id}
update_flip(id, buy_price) ==
    /\ IF ~\E f \in flips : f.id = id
       THEN /\ response' = Respond("update_flip", id, 404)
            /\ UNCHANGED flips
       ELSE /\ flips' = (flips \ {FlipById(id)}) \cup {Patched(FlipById(id), buy_price)}
            /\ response' = Respond("update_flip", id, 200)
    /\ UNCHANGED <<requests, inbox, orderFeed, tokens, deals, nextDealId, nextFlipId, instances, fired,
                   intakeRuns, reviewRuns, syncRuns, sent, jobLog>>

\* the flip is listed on the marketplace and keeps the listing's id; at most
\* one active flip carries a listing id
link_ebay_listing(id, listing) ==
    /\ \E f \in flips : f.id = id /\ f.status = "active" /\ f.ebay_listing_id = None
    /\ ~\E g \in flips : g.status = "active" /\ g.ebay_listing_id = Some(listing)
    /\ flips' = (flips \ {FlipById(id)})
                 \cup {[FlipById(id) EXCEPT !.ebay_listing_id = Some(listing)]}
    /\ UNCHANGED <<requests, inbox, orderFeed, tokens, deals, nextDealId, nextFlipId, instances, fired,
                   intakeRuns, reviewRuns, syncRuns, sent, jobLog, response>>

\* DELETE /flips/{flip_id}
delete_flip(id) ==
    /\ IF ~\E f \in flips : f.id = id
       THEN /\ response' = Respond("delete_flip", id, 404)
            /\ UNCHANGED flips
       ELSE /\ flips' = flips \ {FlipById(id)}
            /\ response' = Respond("delete_flip", id, 200)
    /\ UNCHANGED <<requests, inbox, orderFeed, tokens, deals, nextDealId, nextFlipId, instances, fired,
                   intakeRuns, reviewRuns, syncRuns, sent, jobLog>>

\* POST /device-token (routers/stats.py)
register_device_token(t) ==
    /\ tokens' = tokens \cup {t}
    /\ response' = [op |-> "register_device_token", code |-> 200]
    /\ UNCHANGED <<requests, inbox, orderFeed, deals, flips, nextDealId, nextFlipId, instances, fired,
                   intakeRuns, reviewRuns, syncRuns, sent, jobLog>>

----------------------------------------------------------------------------
(* Specifications *)

Feeds(listings) ==
    UNION {[1..n -> listings] : n \in 1..MaxBatch}

InitStore ==
    /\ tokens = {}
    /\ deals = {}
    /\ flips = {}
    /\ nextDealId = 1
    /\ nextFlipId = 1
    /\ instances = [j \in Jobs |-> 0]
    /\ fired = [j \in Jobs |-> 0]
    /\ intakeRuns = <<>>
    /\ reviewRuns = <<>>
    /\ syncRuns = <<>>
    /\ sent = {}
    /\ jobLog = [j \in Jobs |-> NoLog]
    /\ response = [op |-> "none", code |-> 0]
    /\ requests = {}

----------------------------------------------------------------------------
(* The handlers cut at their awaits: each request has its own session, which
   keeps the row it loaded until the handler returns *)

\* a request between its SELECT and its commit: the row its session holds
Loaded(op, id, row) ==
    [rid |-> Cardinality(requests) + 1, op |-> op, id |-> id, row |-> row, code |-> 0]

\* the handler returns: the request keeps its status code
Answered(q, code) ==
    /\ requests' = (requests \ {q}) \cup {[q EXCEPT !.code = code]}
    /\ response' = Respond(q.op, q.id, code)

\* purchase_deal up to `await db.execute(select(Deal)...)`
purchase_deal_select(id) ==
    /\ Cardinality(requests) < MaxRequests
    /\ requests' = requests \cup
          {Loaded("purchase_deal", id,
                  IF \E d \in deals : d.id = id THEN Some(DealById(id)) ELSE None)}
    /\ UNCHANGED <<inbox, orderFeed, tokens, deals, flips, nextDealId, nextFlipId,
                   instances, fired, intakeRuns, reviewRuns, syncRuns, sent, jobLog,
                   response>>

\* purchase_deal from the loaded row to `await db.commit()`: the checks are
\* made on the session's row; the commit inserts the Flip and updates the
\* status column of the stored row
purchase_deal_commit(q, buy_price) ==
    /\ q \in requests /\ q.op = "purchase_deal" /\ q.code = 0
    /\ IF q.row = None
       THEN /\ Answered(q, 404)
            /\ UNCHANGED <<deals, flips, nextFlipId>>
       ELSE IF AlreadyPurchased(Val(q.row))
       THEN /\ Answered(q, 400)
            /\ UNCHANGED <<deals, flips, nextFlipId>>
       ELSE /\ nextFlipId <= MaxFlips
            /\ flips' = flips \cup {NewFlip(nextFlipId, Some(q.id), buy_price)}
            /\ nextFlipId' = nextFlipId + 1
            /\ deals' = (deals \ {DealById(q.id)})
                         \cup {[DealById(q.id) EXCEPT !.status = "purchased"]}
            /\ Answered(q, 200)
    /\ UNCHANGED <<inbox, orderFeed, tokens, nextDealId, instances, fired, intakeRuns,
                   reviewRuns, syncRuns, sent, jobLog>>

\* sell_flip up to `await db.execute(select(Flip)...)`
sell_flip_select(id) ==
    /\ Cardinality(requests) < MaxRequests
    /\ requests' = requests \cup
          {Loaded("sell_flip", id,
                  IF \E f \in flips : f.id = id THEN Some(FlipById(id)) ELSE None)}
    /\ UNCHANGED <<inbox, orderFeed, tokens, deals, flips, nextDealId, nextFlipId,
                   instances, fired, intakeRuns, reviewRuns, syncRuns, sent, jobLog,
                   response>>

\* the columns a session that marked its flip sold writes on the stored row
SaleWritten(stored, mine) ==
    [stored EXCEPT !.status = mine.status,
                   !.sell_price = mine.sell_price,
                   !.fees_paid = mine.fees_paid,
                   !.shipping_cost = mine.shipping_cost,
                   !.profit = mine.profit]

\* sell_flip from the loaded row to `await db.commit()`
sell_flip_commit(q, sell_price, fees_paid, shipping_cost) ==
    /\ q \in requests /\ q.op = "sell_flip" /\ q.code = 0
    /\ IF q.row = None
       THEN /\ Answered(q, 404)
            /\ UNCHANGED flips
       ELSE IF AlreadySold(Val(q.row))
       THEN /\ Answered(q, 400)
            /\ UNCHANGED flips
       ELSE /\ flips' = (flips \ {FlipById(q.id)})
                         \cup {SaleWritten(FlipById(q.id),
                                  Sold(Val(q.row), sell_price, fees_paid, shipping_cost))}
            /\ Answered(q, 200)
    /\ UNCHANGED <<inbox, orderFeed, tokens, deals, nextDealId, nextFlipId, instances,
                   fired, intakeRuns, reviewRuns, syncRuns, sent, jobLog>>

\* sync_sold_items with a token and a fetched, non-empty order window, up
\* to the SELECT of the active flips: the session holds the rows it loaded
sync_load(r) ==
    /\ r \in DOMAIN syncRuns
    /\ syncRuns[r].pc = "start"
    /\ orderFeed # <<>>
    /\ syncRuns' = [syncRuns EXCEPT ![r] = [pc |-> "loaded", rows |-> flips]]
    /\ UNCHANGED <<inbox, orderFeed, tokens, deals, flips, nextDealId, nextFlipId,
                   instances, fired, intakeRuns, reviewRuns, sent, jobLog, response,
                   requests>>

\* the loops over the loaded rows and, if none raised and a flip was marked,
\* the commit, which writes the marked flips over the stored rows
sync_apply(r) ==
    /\ r \in DOMAIN syncRuns
    /\ syncRuns[r].pc = "loaded"
    /\ LET mine == syncRuns[r].rows
           result == SyncLoop(CompletedItems(orderFeed), flip_by_listing(mine),
                         [rows |-> mine, marked |-> <<>>, synced |-> 0, raised |-> FALSE])
           outcome == IF result.raised THEN "failed" ELSE "done"
           written == {result.marked[k] : k \in DOMAIN result.marked}
       IN  /\ flips' = IF ~result.raised /\ result.synced > 0
                       THEN {IF f.id \in written
                             THEN SaleWritten(f, CHOOSE g \in result.rows : g.id = f.id)
                             ELSE f : f \in flips}
                       ELSE flips
           /\ jobLog' = [jobLog EXCEPT !["sync_ebay_orders"] = SyncLog(outcome, result)]
    /\ syncRuns' = Remove(syncRuns, r)
    /\ instances' = [instances EXCEPT !["sync_ebay_orders"] = @ - 1]
    /\ UNCHANGED <<inbox, orderFeed, tokens, deals, nextDealId, nextFlipId, fired,
                   intakeRuns, reviewRuns, sent, response, requests>>

\* the store and the scheduler at rest while a function is called: no
\* listing, no order, no row, no run
InitIdle ==
    /\ inbox = <<>>
    /\ orderFeed = <<>>
    /\ tokens = {}
    /\ deals = {}
    /\ flips = {}
    /\ nextDealId = 1
    /\ nextFlipId = 1
    /\ instances = [j \in Jobs |-> 0]
    /\ fired = [j \in Jobs |-> 0]
    /\ intakeRuns = <<>>
    /\ reviewRuns = <<>>
    /\ syncRuns = <<>>
    /\ sent = {}
    /\ jobLog = [j \in Jobs |-> NoLog]
    /\ requests = {}

\* the arguments of one call of calculate_estimated_profit
ProfitCalls ==
    [op : {"args"},
     asking_price : {None, Some(0), Some(4999), Some(10000), Some(25000)},
     market_value : {None, Some(50), Some(150), Some(1901), Some(20000)},
     fee_percentage : {None, Some(10), Some(13)},
     shipping_estimate : {0, 599},
     result : {None}]

\* the call returns
estimated_profit_call ==
    /\ response.op = "args"
    /\ response' = [response EXCEPT
           !.op = "calculate_estimated_profit",
           !.result = calculate_estimated_profit_with(response.asking_price,
                          response.market_value, response.fee_percentage,
                          response.shipping_estimate)]
    /\ UNCHANGED <<requests, inbox, orderFeed, tokens, deals, flips, nextDealId, nextFlipId,
                   instances, fired, intakeRuns, reviewRuns, syncRuns, sent, jobLog>>

InitProfit == InitIdle /\ response \in ProfitCalls

NextProfit == estimated_profit_call

SpecProfit == InitProfit /\ [][NextProfit]_vars

\* calls that go through every repair feasibility, with the other risk
\* factors varied
RiskCalls ==
    [op : {"args"},
     estimated_profit : {Some(1000)},
     market_value : {Some(10000)},
     condition : {None, Some("used"), Some("unknown")},
     repair_needed : {Some(TRUE), Some(FALSE)},
     repair_feasibility : {None, Some("easy"), Some("moderate"), Some("difficult"),
                           Some("professional")},
     has_photos : {None, Some(TRUE), Some(FALSE)},
     photo_quality : {None, Some("good"), Some("poor")},
     price_data_quality : {Some("accurate")},
     num_listings : {Some(12)},
     result : {None}]

\* calls that go through the profit bands and their thresholds
BandCalls ==
    [op : {"args"},
     estimated_profit : {None, Some(-1000), Some(0), Some(113), Some(201), Some(499),
                         Some(500), Some(581), Some(1000), Some(1500), Some(2500),
                         Some(3500), Some(4999), Some(5000)},
     market_value : {None, Some(-100), Some(0), Some(1130), Some(1340), Some(1660),
                     Some(2260), Some(10000)},
     condition : {Some("used")},
     repair_needed : {Some(FALSE)},
     repair_feasibility : {None},
     has_photos : {Some(TRUE)},
     photo_quality : {Some("good")},
     price_data_quality : {Some("accurate")},
     num_listings : {Some(12)},
     result : {None}]

\* calls that go through the price statuses and the listing counts, at each
\* risk label
MarketCalls ==
    [op : {"args"},
     estimated_profit : {Some(1000)},
     market_value : {Some(10000)},
     condition : {Some("used")},
     repair_needed : {Some(TRUE), Some(FALSE)},
     repair_feasibility : {Some("professional")},
     has_photos : {Some(TRUE), Some(FALSE)},
     photo_quality : {Some("good")},
     price_data_quality : {None, Some("accurate"), Some("similar_prices"),
                           Some("no_data")},
     num_listings : {None, Some(0), Some(2), Some(3), Some(4), Some(5), Some(9),
                     Some(10), Some(12)},
     result : {None}]

\* the arguments of one call of calculate_deal_score
ScoreCalls ==
    RiskCalls \cup BandCalls \cup MarketCalls \cup
    [op : {"args"},
     estimated_profit : {None, Some(-1000), Some(1000), Some(5000)},
     market_value : {None, Some(-100), Some(0), Some(10000)},
     condition : {None, Some("used"), Some("unknown")},
     repair_needed : {None, Some(TRUE), Some(FALSE)},
     repair_feasibility : {None, Some("moderate"), Some("professional")},
     has_photos : {None, Some(TRUE), Some(FALSE)},
     photo_quality : {Some("good"), Some("poor")},
     price_data_quality : {None, Some("accurate"), Some("no_data")},
     num_listings : {None, Some(0), Some(2), Some(12)},
     result : {None}]

\* the call returns
deal_score_call ==
    /\ response.op = "args"
    /\ response' = [response EXCEPT
           !.op = "calculate_deal_score",
           !.result = calculate_deal_score(response.estimated_profit,
                          response.market_value, response.condition,
                          response.repair_needed, response.repair_feasibility,
                          response.has_photos, response.photo_quality,
                          response.price_data_quality, response.num_listings)]
    /\ UNCHANGED <<requests, inbox, orderFeed, tokens, deals, flips, nextDealId, nextFlipId,
                   instances, fired, intakeRuns, reviewRuns, syncRuns, sent, jobLog>>

InitScore == InitIdle /\ response \in ScoreCalls

NextScore == deal_score_call

SpecScore == InitScore /\ [][NextScore]_vars

\* the arguments of one call of calculate_repair_estimate
RepairCalls ==
    [op : {"args"},
     part_cost : {None, Some(0), Some(1234), Some(5000)},
     repair_feasibility : {None, Some("easy"), Some("moderate"), Some("difficult"),
                           Some("professional"), Some("impossible")},
     repair_type : {None, Some("screen"), Some("port"), Some("board"),
                    Some("scratch"), Some("hinge")},
     result : {None}]

\* the call returns
repair_estimate_call ==
    /\ response.op = "args"
    /\ response' = [response EXCEPT
           !.op = "calculate_repair_estimate",
           !.result = calculate_repair_estimate(response.part_cost,
                          response.repair_feasibility, response.repair_type)]
    /\ UNCHANGED <<requests, inbox, orderFeed, tokens, deals, flips, nextDealId, nextFlipId,
                   instances, fired, intakeRuns, reviewRuns, syncRuns, sent, jobLog>>

InitRepair == InitIdle /\ response \in RepairCalls

NextRepair == repair_estimate_call

SpecRepair == InitRepair /\ [][NextRepair]_vars

\* calculate_actual_profit on amounts in tenths of a cent: the difference
\* quantized to whole cents
calculate_actual_profit(buy_price, sell_price, fees_paid, shipping_cost) ==
    10 * Quantize(sell_price - buy_price - fees_paid - shipping_cost, 10)

\* a Flip's sale amounts as Decimals of up to three places, in tenths of a
\* cent: whole cents, and amounts with a fraction of a cent such as a fee of
\* 13% of 19.99
ProfitOfSaleCalls ==
    [op : {"args"},
     buy_price : {50000, 12340},
     sell_price : {Some(90000), Some(19990), Some(90005)},
     fees_paid : {0, 11700, 2599},
     shipping_cost : {0, 5990, 4},
     result : {None}]

\* Flip.calculate_profit and calculate_actual_profit are called on the same
\* amounts and return
actual_profit_call ==
    /\ response.op = "args"
    /\ response' = [response EXCEPT
           !.op = "profit",
           !.result = [flip |-> calculate_profit(response),
                       actual |-> calculate_actual_profit(response.buy_price,
                                      Val(response.sell_price), response.fees_paid,
                                      response.shipping_cost)]]
    /\ UNCHANGED <<requests, inbox, orderFeed, tokens, deals, flips, nextDealId, nextFlipId,
                   instances, fired, intakeRuns, reviewRuns, syncRuns, sent, jobLog>>

InitActual == InitIdle /\ response \in ProfitOfSaleCalls

NextActual == actual_profit_call

SpecActual == InitActual /\ [][NextActual]_vars

\* the intake job over feeds of several listings
InitIntake == inbox \in Feeds(Catalog) /\ orderFeed = <<>> /\ InitStore

NextIntake ==
    \/ FireIntake
    \/ \E r \in DOMAIN intakeRuns : IntakeFetch(r)
    \/ \E r \in DOMAIN intakeRuns : IntakeListing(r)
    \/ \E r \in DOMAIN intakeRuns : IntakeCommit(r)

SpecIntake == InitIntake /\ [][NextIntake]_vars

\* the listings of the catalog that the intake does not price
Unpriced == {l \in Catalog : l.listing_url # "u1"}

\* the three scheduled jobs over a feed of one listing
InitJobs ==
    /\ inbox \in {<<l>> : l \in Unpriced}
    /\ orderFeed \in {f \in OrderFeeds : Len(f) = 0 \/ Len(f[1].items) = 2}
    /\ InitStore

NextJobs ==
    \/ FireIntake
    \/ \E r \in DOMAIN intakeRuns : IntakeFetch(r)
    \/ \E r \in DOMAIN intakeRuns : IntakeListing(r)
    \/ \E r \in DOMAIN intakeRuns : IntakeCommit(r)
    \/ FireReview
    \/ \E r \in DOMAIN reviewRuns : check_needs_review(r)
    \/ FireSync
    \/ \E r \in DOMAIN syncRuns : sync_ebay_orders(r)
    \/ \E t \in Tokens : register_device_token(t)

SpecJobs == InitJobs /\ [][NextJobs]_vars

\* the intake job and the deal and flip handlers over the feed of the one
\* listing that is routed to review
InitLifecycle ==
    /\ inbox \in {<<l>> : l \in {c \in Catalog : c.listing_url = "u3"}}
    /\ orderFeed = <<>>
    /\ InitStore

NextLifecycle ==
    \/ FireIntake
    \/ \E r \in DOMAIN intakeRuns : IntakeFetch(r)
    \/ \E r \in DOMAIN intakeRuns : IntakeListing(r)
    \/ \E r \in DOMAIN intakeRuns : IntakeCommit(r)
    \/ \E id \in DealIds : purchase_deal(id, 5000)
    \/ \E id \in DealIds : dismiss_deal(id)
    \/ \E id \in DealIds, c \in {"used", "unknown"}, m \in {"none", "high"} :
          update_condition(id, c, m)
    \/ create_flip(5000)
    \/ \E id \in FlipIds : sell_flip(id, 9000, 1170, 0)
    \/ \E id \in FlipIds : delete_flip(id)

SpecLifecycle == InitLifecycle /\ [][NextLifecycle]_vars

\* the flip handlers and the purchase of the one listing's deal
InitFlips ==
    /\ inbox \in {<<l>> : l \in {c \in Catalog : c.listing_url = "u3"}}
    /\ orderFeed = <<>>
    /\ InitStore

NextFlips ==
    \/ FireIntake
    \/ \E r \in DOMAIN intakeRuns : IntakeFetch(r)
    \/ \E r \in DOMAIN intakeRuns : IntakeListing(r)
    \/ \E r \in DOMAIN intakeRuns : IntakeCommit(r)
    \/ \E id \in DealIds : purchase_deal(id, 5000)
    \/ create_flip(5000)
    \/ \E id \in FlipIds : sell_flip(id, 9000, 1170, 0)
    \/ \E id \in FlipIds : update_flip(id, Some(6000))

SpecFlips == InitFlips /\ [][NextFlips]_vars

\* the order reconciliation job over flips that are created, listed and sold
InitSync ==
    /\ inbox = <<>>
    /\ orderFeed \in OrderFeeds
    /\ InitStore

NextSync ==
    \/ create_flip(5000)
    \/ \E id \in FlipIds : link_ebay_listing(id, "e1")
    \/ \E id \in FlipIds : sell_flip(id, 9000, 1170, 0)
    \/ FireSync
    \/ \E r \in DOMAIN syncRuns : sync_ebay_orders(r)

SpecSync == InitSync /\ [][NextSync]_vars

\* purchase requests cut at their awaits, over the deal of one listing
InitRace ==
    /\ inbox \in {<<l>> : l \in {c \in Catalog : c.listing_url = "u3"}}
    /\ orderFeed = <<>>
    /\ InitStore

NextRace ==
    \/ FireIntake
    \/ \E r \in DOMAIN intakeRuns : IntakeFetch(r)
    \/ \E r \in DOMAIN intakeRuns : IntakeListing(r)
    \/ \E r \in DOMAIN intakeRuns : IntakeCommit(r)
    \/ \E id \in DealIds : purchase_deal_select(id)
    \/ \E q \in requests : purchase_deal_commit(q, 5000)

SpecRace == InitRace /\ [][NextRace]_vars

\* sale requests cut at their awaits and the reconciliation job cut at its
\* SELECT, over flips that are created and listed
InitSaleRace ==
    /\ inbox = <<>>
    /\ orderFeed \in {f \in OrderFeeds : Len(f) = 1 /\ CompletedItems(f) # <<>>}
    /\ InitStore

NextSaleRace ==
    \/ create_flip(5000)
    \/ \E id \in FlipIds : link_ebay_listing(id, "e1")
    \/ \E id \in FlipIds : (\A q \in requests : q.code # 0) /\ sell_flip_select(id)
    \/ \E q \in requests : sell_flip_commit(q, 8000, 500, 0)
    \/ FireSync
    \/ \E r \in DOMAIN syncRuns : sync_ebay_orders(r)
    \/ \E r \in DOMAIN syncRuns : sync_load(r)
    \/ \E r \in DOMAIN syncRuns : sync_apply(r)

SpecSaleRace == InitSaleRace /\ [][NextSaleRace]_vars

\* the intake job over one listing of any content
InitPipeline == inbox \in {<<l>> : l \in RichListings} /\ orderFeed = <<>> /\ InitStore

NextPipeline ==
    \/ FireIntake
    \/ \E r \in DOMAIN intakeRuns : IntakeFetch(r)
    \/ \E r \in DOMAIN intakeRuns : IntakeListing(r)
    \/ \E r \in DOMAIN intakeRuns : IntakeCommit(r)
    \/ \E t \in Tokens : register_device_token(t)

SpecPipeline == InitPipeline /\ [][NextPipeline]_vars

----------------------------------------------------------------------------
(* Properties *)

\* every Deal of the store and of the open sessions
AllDeals == deals \cup UNION {intakeRuns[r].pending : r \in DOMAIN intakeRuns}

\* the runs of job j in flight
RunsOf(j) ==
    CASE j = "process_emails" -> Len(intakeRuns)
      [] j = "check_needs_review" -> Len(reviewRuns)
      [] j = "sync_ebay_orders" -> Len(syncRuns)

FlipsOf(id) == {f \in flips : f.deal_id = Some(id)}

\* C1: after any sequence of non-overlapping intake runs the store holds at
\* most one Deal per listing_url, and so does the store together with the
\* rows of the running session: a listing whose listing_url already belongs
\* to a Deal of a previous run or of the same batch creates no Deal.
C1_OneDealPerListingUrl ==
    /\ \A d1 \in deals, d2 \in deals : d1.listing_url = d2.listing_url => d1 = d2
    /\ \A r \in DOMAIN intakeRuns :
          \A d1 \in deals \cup intakeRuns[r].pending,
             d2 \in deals \cup intakeRuns[r].pending :
             d1.listing_url = d2.listing_url => d1 = d2

\* a feed that names one listing_url twice was taken in by one run, which
\* stored one Deal, and a later run over the same feed has ended having
\* created nothing
C1_Witness ==
    /\ Len(inbox) = 2
    /\ inbox[1].listing_url = inbox[2].listing_url
    /\ Cardinality(deals) = 1
    /\ fired["process_emails"] = 2
    /\ jobLog["process_emails"].outcome = "done"
    /\ jobLog["process_emails"].batch_len = 2
    /\ jobLog["process_emails"].decided = {}

\* C2: a Deal whose classification reports has_product_photos = false is
\* dismissed, has no market_value, estimated_profit, deal_score or
\* notified_at, and no deal notification was sent for it, whatever its
\* condition, repair, price and profit signals.
C2_NoPhotoAutoDismiss ==
    \A d \in AllDeals :
        d.has_product_photos = Some(FALSE) =>
            /\ d.status = "dismissed"
            /\ d.market_value = None
            /\ d.estimated_profit = None
            /\ d.deal_score = None
            /\ d.notified_at = None
            /\ ~\E m \in sent : m.kind = "deal" /\ m.deal_id = d.id

\* a run that read a registered device token has taken in a listing without
\* product photos that has a price, a search term and a stated condition
C2_Witness ==
    \E r \in DOMAIN intakeRuns :
        /\ intakeRuns[r].tokens # {}
        /\ \E d \in intakeRuns[r].pending :
              /\ d.has_product_photos = Some(FALSE)
              /\ d.status = "dismissed"
              /\ d.asking_price # None
              /\ d.search_term # ""
              /\ d.condition = Some("used")

\* C3: a Deal whose classification succeeded and does not report
\* has_product_photos = false has status needs_condition if and only if its
\* condition is needs_repair, or repair_needed is true, or its condition is
\* unknown; in every other case it has status new.
C3_RepairRouting ==
    \A d \in AllDeals :
        (d.condition_confidence # None /\ d.has_product_photos # Some(FALSE)) =>
            /\ d.status = "needs_condition" <=>
                  \/ d.condition = Some("needs_repair")
                  \/ d.repair_needed = Some(TRUE)
                  \/ d.condition = Some("unknown")
            /\ d.status \in {"needs_condition", "new"}

\* a listing of unknown condition with no repair signal is stored as
\* needs_condition
C3_Witness ==
    \E d \in deals :
        /\ d.condition = Some("unknown")
        /\ d.repair_needed = Some(FALSE)
        /\ d.has_product_photos # Some(FALSE)
        /\ d.status = "needs_condition"

\* C4: an exception raised while processing one listing of a batch does not
\* abort the batch: when a run has ended, no listing after a failing one was
\* left unprocessed (the iterations completed, and the failing one, cover
\* the batch).
C4_FailureDoesNotAbortBatch ==
    jobLog["process_emails"].outcome = "failed" =>
        jobLog["process_emails"].iterations + 1 >= jobLog["process_emails"].batch_len

\* C5: a failure at a later listing of a run does not undo the earlier
\* listings of the run: every Deal the run created and decided is in the
\* store, with those values, after the run has ended.
C5_FailureKeepsEarlierDeals ==
    jobLog["process_emails"].decided \subseteq deals

\* C6: a job function never raises, whatever fails inside it: the executor
\* sees every run as executed, a failed run included, and the job's slot is
\* released so that the next firing runs.
C6_JobsNeverRaise ==
    \A j \in Jobs :
        /\ jobLog[j].event \in {"none", "executed"}
        /\ instances[j] = RunsOf(j)
        /\ (RunsOf(j) = 0 => CanSubmit(j))

\* every job has had a run that failed inside, and a later firing of the
\* intake job is running
C6_Witness ==
    /\ \A j \in Jobs : jobLog[j].outcome = "failed" /\ jobLog[j].event = "executed"
    /\ Len(intakeRuns) = 1

\* C7: at most one execution of a job id is in flight at any time.
C7_AtMostOneRunPerJob ==
    \A j \in Jobs : RunsOf(j) <= 1

\* each job has fired twice while its first run was still executing, and the
\* second firing started no run
C7_Witness ==
    \A j \in Jobs :
        /\ fired[j] = 2
        /\ RunsOf(j) = 1
        /\ jobLog[j].outcome = "none"

\* C8: a Deal with status purchased has exactly one Flip whose deal_id is
\* the Deal's id, in every reachable state.
C8_PurchasedHasOneFlip ==
    \A d \in deals : d.status = "purchased" => Cardinality(FlipsOf(d.id)) = 1

\* C9: a Deal enters status purchased at most once: no step brings to
\* purchased a Deal that already has a Flip from an earlier purchase.
C9_PurchasedAtMostOnce ==
    [][\A d \in deals :
          (FlipsOf(d.id) # {} /\ d.status # "purchased") =>
              ~\E e \in deals' : e.id = d.id /\ e.status = "purchased"]_vars

\* C10: purchase_deal on a Deal that is already purchased answers with an
\* error and leaves the deals and the flips as they were.
C10_RepurchaseRejected ==
    [][\A id \in DealIds :
          (/\ \E d \in deals : d.id = id /\ d.status = "purchased"
           /\ purchase_deal(id, 5000)) =>
              /\ response'.code = 400
              /\ deals' = deals
              /\ flips' = flips]_vars

\* purchase_deal was answered 400 for a Deal that is purchased and has its
\* Flip
C10_Witness ==
    /\ response = [op |-> "purchase_deal", code |-> 400]
    /\ \E d \in deals : d.status = "purchased" /\ Cardinality(FlipsOf(d.id)) = 1

\* C11: sell_flip on a Flip that is already sold answers with an error and
\* leaves every flip, its status, sale fields and profit, as it was.
C11_ResellRejected ==
    [][\A id \in FlipIds :
          (/\ \E f \in flips : f.id = id /\ f.status = "sold"
           /\ sell_flip(id, 9000, 1170, 0)) =>
              /\ response'.code = 400
              /\ flips' = flips]_vars

\* sell_flip was answered 400 for a flip that is sold and keeps the profit of
\* its first sale
C11_Witness ==
    /\ response = [op |-> "sell_flip", code |-> 400]
    /\ \E f \in flips : f.status = "sold" /\ f.sell_price = Some(9000)
                          /\ f.profit = Some(9000 - f.buy_price - 1170)

\* C12: every Flip with status sold has profit = sell_price - buy_price -
\* fees_paid - shipping_cost, and every Flip with status active has no
\* profit, in every reachable state.
C12_ProfitInvariant ==
    \A f \in flips :
        /\ f.status = "sold" =>
              /\ f.sell_price # None
              /\ f.profit = Some(Val(f.sell_price) - f.buy_price
                                 - f.fees_paid - f.shipping_cost)
        /\ f.status = "active" => f.profit = None

\* C13: the status of a Deal only changes along new -> needs_condition,
\* new -> dismissed, new -> purchased, needs_condition -> dismissed and
\* needs_condition -> purchased; the status of a Deal that is dismissed or
\* purchased never changes.
C13_StatusEdges ==
    [][\A d \in deals : \A e \in deals' :
          (e.id = d.id /\ e.status # d.status) =>
              <<d.status, e.status>> \in
                  {<<"new", "needs_condition">>, <<"new", "dismissed">>,
                   <<"new", "purchased">>, <<"needs_condition", "dismissed">>,
                   <<"needs_condition", "purchased">>}]_vars

DealSends(msgs, id) == {m \in msgs : m.kind = "deal" /\ m.deal_id = id}

DealSendsTo(msgs, id, t) == {m \in DealSends(msgs, id) : m.token = t}

\* C16: notified_at is set only when a notification is dispatched: a Deal
\* with notified_at set has at least one deal notification sent for it to
\* a registered device token.
C16_NotifiedOnlyWhenDispatched ==
    \A d \in AllDeals :
        d.notified_at # None => DealSends(sent, d.id) # {}

\* C17: when an intake iteration prices a Deal on the standard path, then
\* if estimated_profit is at least the profit threshold the Deal gets
\* notified_at and exactly one deal notification goes to each device token
\* the run read (and to no other token); if the profit is below the
\* threshold or cannot be computed, notified_at stays unset and no deal
\* notification is sent for it.
C17_NotifyIffProfitable ==
    [][\A r \in DOMAIN intakeRuns :
          (r \in DOMAIN intakeRuns' /\ intakeRuns'[r].i = intakeRuns[r].i + 1) =>
              \A d \in intakeRuns'[r].pending \ intakeRuns[r].pending :
                  (d.status = "new" /\ d.market_value # None) =>
                      IF d.estimated_profit # None
                         /\ Val(d.estimated_profit) >= ProfitThreshold
                      THEN /\ d.notified_at # None
                           /\ \A t \in intakeRuns[r].tokens :
                                 Cardinality(DealSendsTo(sent' \ sent, d.id, t)) = 1
                           /\ \A m \in DealSends(sent', d.id) :
                                 m.token \in intakeRuns[r].tokens
                      ELSE /\ d.notified_at = None
                           /\ DealSends(sent', d.id) = {}]_vars

\* a run that read two device tokens holds a priced standard-path Deal whose
\* profit reaches the threshold, with one notification sent to each token
C17_Witness ==
    \E r \in DOMAIN intakeRuns :
        /\ Cardinality(intakeRuns[r].tokens) = 2
        /\ \E d \in intakeRuns[r].pending :
              /\ d.status = "new" /\ d.market_value # None
              /\ d.estimated_profit # None
              /\ Val(d.estimated_profit) >= ProfitThreshold
              /\ Cardinality(DealSends(sent, d.id)) = 2

\* C18: for all inputs of calculate_deal_score (profit and market value
\* missing, zero, negative or positive, any condition, repair flags, photo
\* flags, price status and listing count) the returned deal_score is
\* between 0 and 100.
C18_ScoreBounds ==
    response.op = "calculate_deal_score" =>
        /\ response.result.deal_score >= 0
        /\ response.result.deal_score <= 100

\* a call with a non-positive market value, a professional repair, no
\* photos and no price data has returned, and its score is the minimum
C18_Witness ==
    /\ response.op = "calculate_deal_score"
    /\ response.market_value = Some(-100)
    /\ response.repair_needed = Some(TRUE)
    /\ response.repair_feasibility = Some("professional")
    /\ response.has_photos = Some(FALSE)
    /\ response.price_data_quality = Some("no_data")
    /\ response.num_listings = Some(2)
    /\ response.result.deal_score < 20

\* the inputs of the spec's score example: profit at least half the market
\* value, no repair, a known condition, photos present and not poor,
\* accurate prices from 12 listings
ScoreExample ==
    /\ response.estimated_profit # None
    /\ response.market_value # None
    /\ Val(response.market_value) > 0
    /\ 2 * Val(response.estimated_profit) >= Val(response.market_value)
    /\ ~TruthyBool(response.repair_needed)
    /\ response.condition # Some("unknown")
    /\ response.has_photos = Some(TRUE)
    /\ response.photo_quality # Some("poor")
    /\ response.price_data_quality = Some("accurate")
    /\ response.num_listings = Some(12)

\* C19: deal_score is the sum of the profit, risk, effort and
\* market-confidence sub-scores clamped to [0,100]; for the example inputs
\* the result is deal_score 100, risk low, effort low, demand high and flip
\* speed fast.
C19_ScoreIsClampedSum ==
    response.op = "calculate_deal_score" =>
        LET total == profit_score(response.estimated_profit, response.market_value)
                     + risk_score(response.condition, response.repair_needed,
                                  response.repair_feasibility, response.has_photos,
                                  response.photo_quality)
                     + effort_score(response.repair_needed, response.repair_feasibility)
                     + market_score(response.price_data_quality, response.num_listings)
        IN  /\ response.result.deal_score
                  = (IF total > 100 THEN 100 ELSE IF total < 0 THEN 0 ELSE total)
            /\ ScoreExample =>
                  /\ response.result.deal_score = 100
                  /\ response.result.risk_level = "low"
                  /\ response.result.effort_level = "low"
                  /\ response.result.demand_indicator = "high"
                  /\ response.result.flip_speed_prediction = "fast"

\* the call with the example inputs has returned
C19_Witness ==
    /\ response.op = "calculate_deal_score"
    /\ ScoreExample
    /\ response.result.deal_score = 100

\* the exact profit of a call, in hundredths of a cent
ExactProfit(call) ==
    LET fee == IF call.fee_percentage = None THEN FeePct
               ELSE Val(call.fee_percentage)
    IN  100 * Val(call.market_value) - 100 * Val(call.asking_price)
        - fee * Val(call.market_value) - 100 * call.shipping_estimate

\* C20: calculate_estimated_profit returns None when asking_price or
\* market_value is missing; otherwise it returns market_value - asking_price
\* - market_value * fee_pct / 100 - shipping rounded to a whole cent (the
\* result is within half a cent of the exact value); for asking 100.00,
\* market value 200.00, fee 13% and no shipping it returns 74.00.
C20_EstimatedProfit ==
    response.op = "calculate_estimated_profit" =>
        IF response.asking_price = None \/ response.market_value = None
        THEN response.result = None
        ELSE /\ response.result # None
             /\ 2 * (100 * Val(response.result) - ExactProfit(response)) <= 100
             /\ 2 * (ExactProfit(response) - 100 * Val(response.result)) <= 100
             /\ (/\ response.asking_price = Some(10000)
                 /\ response.market_value = Some(20000)
                 /\ response.fee_percentage = Some(13)
                 /\ response.shipping_estimate = 0) => response.result = Some(7400)

\* a call whose exact value has a fraction of a cent above one half has
\* returned the cent above
C20_Witness ==
    /\ response.op = "calculate_estimated_profit"
    /\ response.asking_price = Some(0)
    /\ response.market_value = Some(1901)
    /\ response.fee_percentage = Some(13)
    /\ response.shipping_estimate = 0
    /\ response.result = Some(1654)

\* C21: calculate_repair_estimate returns the labor of the fixed table for
\* the given feasibility (easy 15, moderate 35, difficult 75, professional
\* 150), 50 when the feasibility is absent and no repair-type keyword
\* matches, a part cost of 0 when it is missing, and total = part + labor;
\* for part cost 50 and feasibility moderate it returns 50.00, 35.00, 85.00.
C21_RepairEstimate ==
    response.op = "calculate_repair_estimate" =>
        /\ (response.repair_feasibility = Some("easy")
              => response.result.labor_estimate = 1500)
        /\ (response.repair_feasibility = Some("moderate")
              => response.result.labor_estimate = 3500)
        /\ (response.repair_feasibility = Some("difficult")
              => response.result.labor_estimate = 7500)
        /\ (response.repair_feasibility = Some("professional")
              => response.result.labor_estimate = 15000)
        /\ (response.repair_feasibility = None
              /\ response.repair_type \in {None, Some("hinge")}
              => response.result.labor_estimate = 5000)
        /\ (response.part_cost = None => response.result.part_cost = 0)
        /\ (response.part_cost # None
              => response.result.part_cost = Val(response.part_cost))
        /\ response.result.total_estimate
              = response.result.part_cost + response.result.labor_estimate
        /\ (response.part_cost = Some(5000)
              /\ response.repair_feasibility = Some("moderate")
              => response.result = [part_cost |-> 5000, labor_estimate |-> 3500,
                                    total_estimate |-> 8500])

\* the example call, with a repair type whose keyword names another tier,
\* has returned
C21_Witness ==
    /\ response.op = "calculate_repair_estimate"
    /\ response.part_cost = Some(5000)
    /\ response.repair_feasibility = Some("moderate")
    /\ response.repair_type = Some("board")
    /\ response.result.total_estimate = 8500

\* no pricing on a Deal: market value, price status, profit and score unset
Unpriced_Deal(d) ==
    /\ d.market_value = None
    /\ d.price_status = None
    /\ d.estimated_profit = None
    /\ d.deal_score = None

\* C22 (as stated): a listing the intake classified with condition unknown
\* has no market_value, price_status, estimated_profit or deal_score.
C22_UnknownNeverPriced ==
    \A d \in AllDeals : d.condition = Some("unknown") => Unpriced_Deal(d)

\* C22 (amended): a listing the intake classified with condition unknown
\* and without repair_needed has no market_value, price_status,
\* estimated_profit or deal_score.
C22_UnknownNoRepairNeverPriced ==
    \A d \in AllDeals :
        (d.condition = Some("unknown") /\ ~TruthyBool(d.repair_needed))
            => Unpriced_Deal(d)

\* a committed Deal of unknown condition, no repair needed, with photos not
\* ruled out, a search term and an asking price, waits for review unpriced
C22_Witness ==
    \E d \in deals :
        /\ d.condition = Some("unknown")
        /\ d.repair_needed = Some(FALSE)
        /\ d.status = "needs_condition"
        /\ d.search_term # ""
        /\ d.asking_price # None
        /\ Unpriced_Deal(d)

\* no classification on a Deal
NoClassification(d) ==
    /\ d.condition = None
    /\ d.condition_confidence = None
    /\ d.repair_needed = None
    /\ d.repair_feasibility = None
    /\ d.repair_part_needed = None
    /\ d.has_product_photos = None
    /\ d.photo_quality = None

\* C23: when the classification adapter returns nothing for a listing, the
\* iteration keeps the Deal with status new and with no classification,
\* pricing, score or notified_at, no exception ends the run (the job's log
\* is untouched and the run is still in flight), and the loop moves to the
\* next listing.
C23_ClassificationFailureKeepsDeal ==
    [][\A r \in DOMAIN intakeRuns :
          r \in DOMAIN intakeRuns' =>
              \A d \in intakeRuns'[r].pending \ intakeRuns[r].pending :
                  d.condition = None =>
                      /\ d.status = "new"
                      /\ NoClassification(d)
                      /\ Unpriced_Deal(d)
                      /\ d.notified_at = None
                      /\ intakeRuns'[r].i = intakeRuns[r].i + 1
                      /\ jobLog' = jobLog
                      /\ sent' = sent]_vars

\* a run kept a listing it could not classify and went on to classify the
\* next one
C23_Witness ==
    \E r \in DOMAIN intakeRuns :
        \E d1 \in intakeRuns[r].pending, d2 \in intakeRuns[r].pending :
            /\ d1.condition = None
            /\ d1.status = "new"
            /\ d2.condition # None
            /\ d1.id < d2.id

\* C24: when a deal notification to one device token fails, the same
\* iteration still attempts a send to every token the run read, and the run
\* is not aborted: it is still in flight at the next listing and the job's
\* log is untouched.
C24_SendFailureDoesNotStopSends ==
    [][\A m \in DealSends(sent' \ sent, nextDealId) :
          ~m.delivered =>
              \E r \in DOMAIN intakeRuns :
                  /\ r \in DOMAIN intakeRuns'
                  /\ \E d \in intakeRuns'[r].pending : d.id = m.deal_id
                  /\ m.token \in intakeRuns[r].tokens
                  /\ \A t \in intakeRuns[r].tokens :
                        DealSendsTo(sent' \ sent, m.deal_id, t) # {}
                  /\ intakeRuns'[r].i = intakeRuns[r].i + 1
                  /\ jobLog' = jobLog]_vars

\* the send to one token failed, the send to the other one was made and
\* delivered, and the run that sent them is still in flight
C24_Witness ==
    \E r \in DOMAIN intakeRuns :
        \E d \in intakeRuns[r].pending :
            /\ Cardinality(intakeRuns[r].tokens) = 2
            /\ \E m1 \in DealSends(sent, d.id), m2 \in DealSends(sent, d.id) :
                  /\ ~m1.delivered
                  /\ m2.delivered
                  /\ m1.token # m2.token

\* C25: a reconciliation run that reached a line item of a completed order
\* whose listing id matches an active Flip ends with that Flip in status
\* sold, with sell_price taken from a line item of that listing, fees_paid =
\* sell_price x fee rate, profit = sell_price - buy_price - fees_paid -
\* shipping_cost, and with the Flip counted among the synced items.
C25_MatchedFlipIsSold ==
    [][Len(syncRuns') < Len(syncRuns) =>
          \A i \in DOMAIN jobLog'["sync_ebay_orders"].marked :
              /\ jobLog'["sync_ebay_orders"].synced >= 1
              /\ \E f \in flips' :
                    /\ f.id = jobLog'["sync_ebay_orders"].marked[i]
                    /\ f.status = "sold"
                    /\ f.sell_price # None
                    /\ \E k \in DOMAIN CompletedItems(orderFeed) :
                          /\ Some(CompletedItems(orderFeed)[k].listing_id)
                                = f.ebay_listing_id
                          /\ CompletedItems(orderFeed)[k].sell_price
                                = Val(f.sell_price)
                    /\ 2 * (100 * f.fees_paid - FeePct * Val(f.sell_price)) <= 100
                    /\ 2 * (FeePct * Val(f.sell_price) - 100 * f.fees_paid) <= 100
                    /\ f.profit = Some(Val(f.sell_price) - f.buy_price
                                       - f.fees_paid - f.shipping_cost)]_vars

\* C26: for every Flip whose sell_price is set, Flip.calculate_profit and
\* calculate_actual_profit on the Flip's buy_price, sell_price, fees_paid and
\* shipping_cost return the same value.
C26_SameProfit ==
    response.op = "profit" =>
        response.result.flip = Some(response.result.actual)

\* the risk sub-score as the spec states it, for the arguments of a call
StatedRisk(call) ==
    LET repair == IF call.repair_needed = Some(TRUE)
                  THEN CASE call.repair_feasibility = Some("professional") -> 15
                         [] call.repair_feasibility = Some("difficult") -> 10
                         [] call.repair_feasibility = Some("moderate") -> 5
                         [] OTHER -> 3
                  ELSE 0
        unknown == IF call.condition = Some("unknown") THEN 5 ELSE 0
        photo == IF call.has_photos # Some(TRUE) THEN 8
                 ELSE IF call.photo_quality = Some("poor") THEN 3 ELSE 0
        left == 20 - repair - unknown - photo
    IN  IF left < 0 THEN 0 ELSE left

\* C27: the risk sub-score of calculate_deal_score is max(0, 20 - repair
\* penalty - 5 if the condition is unknown - photo penalty), the repair
\* penalty applying only when repair_needed (professional 15, difficult 10,
\* moderate 5, otherwise 3) and the photo penalty being 8 without photos,
\* else 3 for poor photos, else 0; the returned risk label is low from 16,
\* medium from 10, high below.
C27_RiskSubScore ==
    response.op = "calculate_deal_score" =>
        /\ risk_score(response.condition, response.repair_needed,
                      response.repair_feasibility, response.has_photos,
                      response.photo_quality) = StatedRisk(response)
        /\ response.result.risk_level
              = (IF StatedRisk(response) >= 16 THEN "low"
                 ELSE IF StatedRisk(response) >= 10 THEN "medium" ELSE "high")

\* a call with a difficult repair and nothing else against it has returned:
\* the sub-score is exactly 10 and the label is medium
C27_Witness ==
    /\ response.op = "calculate_deal_score"
    /\ response.repair_needed = Some(TRUE)
    /\ response.repair_feasibility = Some("difficult")
    /\ response.condition = Some("used")
    /\ response.has_photos = Some(TRUE)
    /\ response.photo_quality = Some("good")
    /\ response.result.risk_level = "medium"

\* the market-confidence sub-score as the spec states it
StatedMarket(call) ==
    LET base == CASE call.price_data_quality = Some("accurate") -> 20
                  [] call.price_data_quality = Some("similar_prices") -> 15
                  [] call.price_data_quality = Some("no_data") -> 5
                  [] OTHER -> 10
        n == call.num_listings
    IN  IF n # None /\ Val(n) >= 10 THEN (IF base + 5 > 20 THEN 20 ELSE base + 5)
        ELSE IF n # None /\ Val(n) < 3 THEN (IF base - 5 < 0 THEN 0 ELSE base - 5)
        ELSE base

\* C28: the market-confidence sub-score of calculate_deal_score is 20 for
\* accurate pricing, 15 for similar_prices, 5 for no_data and 10 otherwise,
\* raised by 5 (capped at 20) when the listing count is at least 10 and
\* lowered by 5 (floored at 0) whenever the listing count is below 3,
\* a count of 0 included.
C28_MarketSubScore ==
    response.op = "calculate_deal_score" =>
        market_score(response.price_data_quality, response.num_listings)
            = StatedMarket(response)

\* the profit sub-score as the spec states it, on the exact percentage
StatedProfitScore(call) ==
    IF call.estimated_profit = None \/ call.market_value = None THEN 0
    ELSE IF Val(call.market_value) <= 0 THEN 0
    ELSE LET p == 100 * Val(call.estimated_profit)
             m == Val(call.market_value)
         IN  IF p >= 50 * m THEN 40
             ELSE IF p >= 35 * m THEN 35
             ELSE IF p >= 25 * m THEN 30
             ELSE IF p >= 15 * m THEN 22
             ELSE IF p >= 10 * m THEN 15
             ELSE IF p >= 5 * m THEN 8
             ELSE 0

\* C29: the profit sub-score of calculate_deal_score follows from profit_pct
\* = estimated_profit / market_value x 100 through the bands >= 50 -> 40,
\* >= 35 -> 35, >= 25 -> 30, >= 15 -> 22, >= 10 -> 15, >= 5 -> 8, else 0,
\* and is 0 when market_value <= 0 or an input is missing.
C29_ProfitSubScore ==
    response.op = "calculate_deal_score" =>
        profit_score(response.estimated_profit, response.market_value)
            = StatedProfitScore(response)

\* the demand indicator as the spec states it, from the listing count alone
StatedDemand(call) ==
    IF call.num_listings # None /\ Val(call.num_listings) >= 10 THEN "high"
    ELSE IF call.num_listings # None /\ Val(call.num_listings) >= 5 THEN "medium"
    ELSE "low"

\* C30: the returned demand indicator depends only on the listing count
\* (high from 10, medium from 5, low otherwise and when the count is
\* missing), and flip_speed_prediction is fast exactly when demand is high
\* and risk is low, slow when demand is low or risk is high, and medium in
\* every remaining case.
C30_DemandAndFlipSpeed ==
    response.op = "calculate_deal_score" =>
        LET res == response.result
        IN  /\ res.demand_indicator = StatedDemand(response)
            /\ (res.flip_speed_prediction = "fast")
                  <=> (res.demand_indicator = "high" /\ res.risk_level = "low")
            /\ (res.demand_indicator = "low" \/ res.risk_level = "high")
                  => res.flip_speed_prediction = "slow"
            /\ (~(res.demand_indicator = "high" /\ res.risk_level = "low")
                /\ ~(res.demand_indicator = "low" \/ res.risk_level = "high"))
                  => res.flip_speed_prediction = "medium"

\* a call with 12 listings and a high risk has returned: demand is high and
\* the prediction is slow
C30_Witness ==
    /\ response.op = "calculate_deal_score"
    /\ response.num_listings = Some(12)
    /\ response.result.demand_indicator = "high"
    /\ response.result.risk_level = "high"
    /\ response.result.flip_speed_prediction = "slow"

\* C31: when the pricing resolver returns nothing for a listing on the
\* standard path, the iteration keeps the Deal in status new with
\* market_value, estimated_profit, deal_score and notified_at unset, sends no
\* notification, does not end the run (the job's log is untouched) and
\* moves to the next listing.
C31_NoPricingSkipsDependentSteps ==
    [][\A r \in DOMAIN intakeRuns :
          r \in DOMAIN intakeRuns' =>
              \A d \in intakeRuns'[r].pending \ intakeRuns[r].pending :
                  (d.status = "new" /\ d.condition # None /\ d.market_value = None) =>
                      /\ d.estimated_profit = None
                      /\ d.deal_score = None
                      /\ d.notified_at = None
                      /\ sent' = sent
                      /\ intakeRuns'[r].i = intakeRuns[r].i + 1
                      /\ jobLog' = jobLog]_vars

\* a run that read a device token keeps a classified standard-path Deal
\* with a search term and an asking price for which no price came back
C31_Witness ==
    \E r \in DOMAIN intakeRuns :
        /\ intakeRuns[r].tokens # {}
        /\ \E d \in intakeRuns[r].pending :
              /\ d.status = "new"
              /\ d.condition = Some("used")
              /\ d.search_term # ""
              /\ d.asking_price # None
              /\ d.market_value = None

\* the Deal went down the standard path and had a search term
StandardPathDeal(d) ==
    /\ d.status = "new"
    /\ d.condition \in {Some("new"), Some("used")}
    /\ ~TruthyBool(d.repair_needed)
    /\ d.search_term # ""

\* status, score and notification of a kept standard-path Deal are what its
\* pricing fields alone determine
PricingDecides(d, readTokens, msgs) ==
    /\ d.status = "new"
    /\ d.deal_score =
          IF d.market_value = None THEN None
          ELSE Some(calculate_deal_score(d.estimated_profit, d.market_value,
                        d.condition, d.repair_needed, d.repair_feasibility,
                        d.has_product_photos, d.photo_quality, d.price_status,
                        Some(Val(d.ebay_sold_data).num_sales)).deal_score)
    /\ LET due == /\ d.market_value # None
                  /\ is_profitable_deal(d.asking_price, d.market_value)
       IN  /\ (d.notified_at # None) = due
           /\ \A t \in readTokens :
                 Cardinality(DealSendsTo(msgs, d.id, t)) = IF due THEN 1 ELSE 0

\* the stored value is true when found, false when not found, null on error
PickupTriState(d) ==
    /\ d.local_pickup_available \in {None, Some(TRUE), Some(FALSE)}
    /\ WithPickup(d, "data").local_pickup_available = Some(TRUE)
    /\ WithPickup(d, "none").local_pickup_available = Some(FALSE)
    /\ WithPickup(d, "raised").local_pickup_available = None

C33_ReviewNeverNotified ==
    [][\A r \in DOMAIN intakeRuns :
          r \in DOMAIN intakeRuns' =>
              \A d \in intakeRuns'[r].pending \ intakeRuns[r].pending :
                  d.status = "needs_condition" =>
                      /\ d.notified_at = None
                      /\ sent' = sent
                      /\ DealSends(sent', d.id) = {}]_vars

\* a run that read a device token routed a Deal to review and the
\* repair-cost path priced it with a profit of at least the threshold
C33_Witness ==
    \E r \in DOMAIN intakeRuns :
        /\ intakeRuns[r].tokens # {}
        /\ \E d \in intakeRuns[r].pending :
              /\ d.status = "needs_condition"
              /\ d.market_value # None
              /\ d.estimated_profit # None
              /\ Val(d.estimated_profit) >= ProfitThreshold

\* C34: every stored Deal (the intake run that made it has committed) that
\* has both estimated_profit and repair_total_estimate set has
\* true_profit = estimated_profit - repair_total_estimate.
C34_TrueProfitOfRepairedDeal ==
    \A d \in deals :
        (d.estimated_profit # None /\ d.repair_total_estimate # None) =>
            d.true_profit =
                Some(Val(d.estimated_profit) - Val(d.repair_total_estimate))

\* the requests of handler op for row id that were answered with code
AnsweredWith(op, id, code) ==
    {q \in requests : q.op = op /\ q.id = id /\ q.code = code}

\* C35: of the purchase_deal requests for one Deal that interleave at their
\* awaits at most one succeeds, and at most one Flip references the Deal.
C35_OnePurchaseUnderInterleaving ==
    \A d \in deals :
        /\ Cardinality(AnsweredWith("purchase_deal", d.id, 200)) <= 1
        /\ Cardinality(FlipsOf(d.id)) <= 1

\* the sale columns of a flip
SaleOf(f) == <<f.sell_price, f.fees_paid, f.shipping_cost, f.profit>>

C37_IntakeLeavesStoredDeals ==
    [][intakeRuns' # intakeRuns =>
          /\ \A d \in deals : d \in deals'
          /\ \A d \in deals : DealSends(sent', d.id) = DealSends(sent, d.id)
          /\ \A r \in DOMAIN intakeRuns :
                r \in DOMAIN intakeRuns' =>
                    \A p \in intakeRuns'[r].pending \ intakeRuns[r].pending :
                        \A d \in deals : d.listing_url # p.listing_url]_vars

\* a later run has gone past a listing whose Deal was dismissed or purchased
\* after an earlier run stored it
C37_Witness ==
    \E r \in DOMAIN intakeRuns :
        /\ intakeRuns[r].pc = "loop"
        /\ intakeRuns[r].i = 2
        /\ intakeRuns[r].pending = {}
        /\ \E d \in deals :
              /\ d.listing_url = intakeRuns[r].batch[1].listing_url
              /\ d.status \in {"dismissed", "purchased"}

\* C38: a call of update_condition that is answered with an error leaves
\* every Deal unchanged; a call that succeeds rewrites one Deal, which then
\* has condition new or used, condition_confidence user_confirmed and status
\* new, whatever its status was, and leaves the other Deals unchanged.
C38_UpdateConditionNewOrUsed ==
    [][(/\ response'.op = "update_condition"
        /\ intakeRuns' = intakeRuns /\ fired' = fired /\ flips' = flips) =>
          IF response'.code = 200
          THEN \E d \in deals, e \in deals' :
                  /\ e.id = d.id
                  /\ deals' = (deals \ {d}) \cup {e}
                  /\ e.condition \in {Some("new"), Some("used")}
                  /\ e.condition_confidence = Some("user_confirmed")
                  /\ e.status = "new"
          ELSE deals' = deals]_vars

\* the condition of a Deal that had been purchased was confirmed: the Deal
\* is new again
C38_Witness ==
    /\ response = Respond("update_condition", 1, 200)
    /\ \E d \in deals :
          /\ d.status = "new"
          /\ d.condition = Some("used")
          /\ d.condition_confidence = Some("user_confirmed")
          /\ FlipsOf(d.id) # {}

\* C39: a needs-review sweep leaves every Deal and every Flip unchanged; a
\* sweep that ran to its end with n > 0 Deals in needs_condition made one
\* needs-review send, with count n, for each registered device token and
\* for no other, and a sweep that found none, or that failed, sent nothing.
C39_SweepSendsOnePerToken ==
    [][Len(reviewRuns') < Len(reviewRuns) =>
          LET n   == Cardinality({d \in deals : d.status = "needs_condition"})
              new == sent' \ sent
          IN  /\ deals' = deals
              /\ flips' = flips
              /\ sent \subseteq sent'
              /\ \A m \in new :
                    m.kind = "needs_review" /\ m.count = n /\ m.token \in tokens
              /\ \A t \in tokens : Cardinality({m \in new : m.token = t}) <= 1
              /\ IF jobLog'["check_needs_review"].outcome = "done" /\ n > 0
                 THEN \A t \in tokens :
                         \E m \in sent' :
                            m.kind = "needs_review" /\ m.count = n /\ m.token = t
                 ELSE new = {}]_vars

\* a sweep over one Deal in needs_condition with two registered tokens has
\* made a send for each of them
C39_Witness ==
    /\ jobLog["check_needs_review"].outcome = "done"
    /\ tokens = Tokens
    /\ \E d \in deals : d.status = "needs_condition"
    /\ \A t \in Tokens : \E m \in sent : m.kind = "needs_review" /\ m.token = t

====
